---------------------------- MODULE Spec2Model ----------------------------
(***************************************************************************)
(* Meeting-capture backend (python_services): the Session aggregate, the   *)
(* SessionStore registry with its VAD-gated ingestion pipeline, the        *)
(* threshold VAD, and the file-backed persistence of export manifests.     *)
(*                                                                         *)
(* Conventions.  Python's Optional[T] is a sequence of length <= 1: None   *)
(* is << >> and a present value v is <<v>>.  A dict is a function whose    *)
(* DOMAIN is the set of keys present.  Audio samples are integers (scaled  *)
(* amplitudes); only abs(sample) >= threshold is ever read from them.      *)
(* Strings that the code strips are sequences of one-character strings;    *)
(* strings that are only stored and compared are TLA+ strings.  Span       *)
(* indices are 0-based as in the code.                                     *)
(***************************************************************************)
EXTENDS Integers, Sequences, FiniteSets, TLC

VARIABLES
    sessions,   \* SessionStore._sessions : session_id -> Session
    held,       \* Optional[SessionExport]: the manifest a caller kept from export
    files,      \* <storage_dir>/exports : session_id -> stored JSON payload
    last,       \* the last call: operation, arguments, result, collaborator calls
    fed,        \* history: session_id -> samples appended to the live Session
                \*          object since it was constructed or its buffer cleared
    redacted,   \* history: the segments forget_speaker scrubbed, with their text
    thr,        \* concurrent callers: thread -> its call and position in it
    rate_limiter \* api/server.py rate_limiter, with the time of day and the
                \*          history of the requests it granted

vars == <<sessions, held, files, last, fed, redacted, thr, rate_limiter>>

(***************************************************************************)
(* Bounds of the model.                                                    *)
(***************************************************************************)
MaxSegs == 2        \* segments in a timeline
MaxBuf == 3         \* samples ever fed to one Session object
MaxVadLen == 5      \* samples in a detect_speech input
MaxRun == 2         \* largest min_run tried
MaxTick == 4        \* time of day of the last request, in ticks

(***************************************************************************)
(* Input domains.                                                          *)
(***************************************************************************)
None == << >>
Some(x) == <<x>>
Val(o) == o[1]

SessionIds == {"s1", "s2"}
Speakers == {"spk_A", "spk_B"}
Texts == {"salam"}
Redactions == {"[redacted]"}
SeqsUpTo(S, n) == UNION {[1..k -> S] : k \in 0..n}

Abs(x) == IF x < 0 THEN -x ELSE x
Min(a, b) == IF a < b THEN a ELSE b
Drop(s, n) == SubSeq(s, n + 1, Len(s))
LastN(s, n) == Drop(s, Len(s) - Min(n, Len(s)))
IsSuffix(s, t) == Len(s) <= Len(t) /\ s = Drop(t, Len(t) - Len(s))

(***************************************************************************)
(* vad/simple_vad.py                                                       *)
(***************************************************************************)
NoStart == -1       \* start = None

SpeechSpan(s, e) == [start_index |-> s, end_index |-> e]

RECURSIVE vad_scan(_, _, _, _, _, _, _)
vad_scan(window, threshold, min_run, index, start, run_length, spans) ==
    IF index >= Len(window)
    THEN \* after the loop
         IF start # NoStart /\ run_length >= min_run
         THEN Append(spans, SpeechSpan(start, Len(window) - 1))
         ELSE spans
    ELSE LET sample == window[index + 1]
             is_speech == Abs(sample) >= threshold
         IN  IF is_speech
             THEN vad_scan(window, threshold, min_run, index + 1,
                           IF start = NoStart THEN index ELSE start,
                           run_length + 1, spans)
             ELSE vad_scan(window, threshold, min_run, index + 1, NoStart, 0,
                           IF start # NoStart /\ run_length >= min_run
                           THEN Append(spans, SpeechSpan(start, index - 1))
                           ELSE spans)

\* detect_speech without the check after the loop: a run that reaches the
\* last sample is never emitted
\* detect_speech that accepts a run one sample short of min_run
detect_speech_short_run(samples, threshold, min_run) ==
    vad_scan(samples, threshold, min_run - 1, 0, NoStart, 0, << >>)

detect_speech_no_flush(samples, threshold, min_run) ==
    LET spans == vad_scan(samples, threshold, min_run, 0, NoStart, 0, << >>)
    IN  IF spans # << >> /\ spans[Len(spans)].end_index = Len(samples) - 1
        THEN SubSeq(spans, 1, Len(spans) - 1)
        ELSE spans

\* a scan that joins two runs separated by a single quiet sample
detect_speech_merges(samples, threshold, min_run) ==
    LET spans == vad_scan(samples, threshold, min_run, 0, NoStart, 0, << >>)
    IN  IF Len(spans) >= 2 /\ spans[2].start_index = spans[1].end_index + 2
        THEN <<SpeechSpan(spans[1].start_index, spans[2].end_index)>>
                 \o SubSeq(spans, 3, Len(spans))
        ELSE spans

detect_speech(samples, threshold, min_run) ==
    vad_scan(samples, threshold, min_run, 0, NoStart, 0, << >>)

(***************************************************************************)
(* datetime: a day count with or without a UTC offset.  Session.created_at *)
(* is datetime.now(timezone.utc).                                          *)
(***************************************************************************)
datetime(day, tzinfo) == [day |-> day, tzinfo |-> tzinfo]
utc(day) == datetime(day, "UTC")
naive(day) == datetime(day, "none")

(***************************************************************************)
(* summarization/summarizer.py, the extraction fallback: the first         *)
(* sentence is the highlight.  A transcript is the sequence of the texts   *)
(* that " ".join concatenates.                                             *)
(***************************************************************************)
Summary(bullet_points, highlight) ==
    [bullet_points |-> bullet_points, highlight |-> highlight]

summarize(transcript) ==
    IF transcript = << >>
    THEN Summary(<< >>, "")
    ELSE Summary(transcript, transcript[1])

(***************************************************************************)
(* diarization/diarization_service.py: DiarizedSegment.  sessions.py reads *)
(* and writes speaker and text only (start, end and confidence keep their  *)
(* defaults and are never read).                                           *)
(***************************************************************************)
DiarizedSegment(speaker, text) == [speaker |-> speaker, text |-> text]

(***************************************************************************)
(* storage/manifests.py                                                    *)
(***************************************************************************)
SegmentRecord(speaker, text, speaker_label) ==
    [speaker |-> speaker, text |-> text, speaker_label |-> speaker_label]

SessionExport(session_id, created_at, language, segments, summary, title, agenda) ==
    [session_id |-> session_id, created_at |-> created_at, language |-> language,
     segments |-> segments, summary |-> summary, title |-> title, agenda |-> agenda]

(***************************************************************************)
(* Python built-ins used by sessions.py                                    *)
(***************************************************************************)
Whitespace == {" "}

RECURSIVE lstrip(_)
lstrip(s) == IF s # << >> /\ Head(s) \in Whitespace THEN lstrip(Tail(s)) ELSE s

RECURSIVE rstrip(_)
rstrip(s) ==
    IF s # << >> /\ s[Len(s)] \in Whitespace
    THEN rstrip(SubSeq(s, 1, Len(s) - 1))
    ELSE s

strip(s) == rstrip(lstrip(s))

EmptyDict == [k \in {} |-> None]
dict_get(d, k) == IF k \in DOMAIN d THEN Some(d[k]) ELSE None
dict_set(d, k, v) == [x \in DOMAIN d \cup {k} |-> IF x = k THEN v ELSE d[x]]
dict_pop(d, k) == [x \in DOMAIN d \ {k} |-> d[x]]

MapSeq(s, F(_)) == [i \in 1..Len(s) |-> F(s[i])]

(***************************************************************************)
(* sessions.py: class Session.  A method is an operator from the Session   *)
(* to [session |-> the Session afterwards, ret |-> the value returned].    *)
(***************************************************************************)
Session(session_id, language, created_at) ==
    [session_id |-> session_id, language |-> language, created_at |-> created_at,
     title |-> None, agenda |-> << >>, segments |-> << >>,
     speaker_labels |-> EmptyDict, audio_buffer |-> << >>]

\* update_metadata that resets what the caller left out
update_metadata_clears_omitted(self, title, agenda) ==
    LET t == IF title # None
             THEN (IF strip(Val(title)) # << >> THEN Some(strip(Val(title))) ELSE None)
             ELSE None
        nonblank(item) == strip(item) # << >>
        a == IF agenda # None
             THEN MapSeq(SelectSeq(Val(agenda), nonblank), strip)
             ELSE << >>
    IN  [session |-> [self EXCEPT !.title = t, !.agenda = a], ret |-> None]

update_metadata(self, title, agenda) ==
    LET t == IF title # None
             THEN (IF strip(Val(title)) # << >> THEN Some(strip(Val(title))) ELSE None)
             ELSE self.title
        nonblank(item) == strip(item) # << >>
        a == IF agenda # None
             THEN MapSeq(SelectSeq(Val(agenda), nonblank), strip)
             ELSE self.agenda
    IN  [session |-> [self EXCEPT !.title = t, !.agenda = a], ret |-> None]

\* append_segments that puts the new segments in front of the timeline
append_segments_prepends(self, new_segments) ==
    LET unlabelled(s) == s.speaker \notin DOMAIN self.speaker_labels
        speaker_of(s) == s.speaker
    IN  [session |-> [self EXCEPT !.segments = new_segments \o self.segments],
         ret |-> MapSeq(SelectSeq(new_segments, unlabelled), speaker_of)]

\* append_segments that reports every speaker of the new segments as new
append_segments_reports_all(self, new_segments) ==
    LET speaker_of(s) == s.speaker
    IN  [session |-> [self EXCEPT !.segments = self.segments \o new_segments],
         ret |-> MapSeq(new_segments, speaker_of)]

\* an append that skips the segments the timeline already holds
append_segments_skips_known(self, new_segments) ==
    LET unlabelled(s) == s.speaker \notin DOMAIN self.speaker_labels
        speaker_of(s) == s.speaker
        unknown(s) == \A i \in 1..Len(self.segments) : self.segments[i] # s
        new_speakers == MapSeq(SelectSeq(new_segments, unlabelled), speaker_of)
    IN  [session |-> [self EXCEPT !.segments = self.segments \o SelectSeq(new_segments, unknown)],
         ret |-> new_speakers]

\* an append that reports as new only the speakers the timeline has not seen
append_segments_new_by_timeline(self, new_segments) ==
    LET unseen(s) == /\ s.speaker \notin DOMAIN self.speaker_labels
                     /\ \A i \in 1..Len(self.segments) : self.segments[i].speaker # s.speaker
        speaker_of(s) == s.speaker
        new_speakers == MapSeq(SelectSeq(new_segments, unseen), speaker_of)
    IN  [session |-> [self EXCEPT !.segments = self.segments \o new_segments],
         ret |-> new_speakers]

append_segments(self, new_segments) ==
    LET unlabelled(s) == s.speaker \notin DOMAIN self.speaker_labels
        speaker_of(s) == s.speaker
        new_speakers == MapSeq(SelectSeq(new_segments, unlabelled), speaker_of)
    IN  [session |-> [self EXCEPT !.segments = self.segments \o new_segments],
         ret |-> new_speakers]

\* label_speaker that starts a new mapping and so drops the other labels
label_speaker_drops_others(self, speaker_id, display_name) ==
    [session |-> [self EXCEPT
                     !.speaker_labels = dict_set(EmptyDict, speaker_id, display_name)],
     ret |-> None]

label_speaker(self, speaker_id, display_name) ==
    [session |-> [self EXCEPT
                     !.speaker_labels = dict_set(self.speaker_labels, speaker_id, display_name)],
     ret |-> None]

\* forget_speaker that scrubs the segments and leaves the label in place
forget_speaker_keeps_label(self, speaker_id, redaction_text) ==
    LET matches(segment) == segment.speaker = speaker_id
        scrub(segment) ==
            IF segment.speaker = speaker_id
            THEN DiarizedSegment(segment.speaker, redaction_text)
            ELSE segment
    IN  [session |-> [self EXCEPT !.segments = MapSeq(self.segments, scrub)],
         ret |-> Len(SelectSeq(self.segments, matches))]

\* forget_speaker that removes the speaker's segments from the timeline
forget_speaker_drops_segments(self, speaker_id, redaction_text) ==
    LET matches(segment) == segment.speaker = speaker_id
        others(segment) == segment.speaker # speaker_id
    IN  [session |-> [self EXCEPT
                         !.speaker_labels = dict_pop(self.speaker_labels, speaker_id),
                         !.segments = SelectSeq(self.segments, others)],
         ret |-> Len(SelectSeq(self.segments, matches))]

forget_speaker(self, speaker_id, redaction_text) ==
    LET matches(segment) == segment.speaker = speaker_id
        scrub(segment) ==
            IF segment.speaker = speaker_id
            THEN DiarizedSegment(segment.speaker, redaction_text)
            ELSE segment
        scrubbed == Len(SelectSeq(self.segments, matches))
    IN  [session |-> [self EXCEPT
                         !.speaker_labels = dict_pop(self.speaker_labels, speaker_id),
                         !.segments = MapSeq(self.segments, scrub)],
         ret |-> scrubbed]

\* the transcript handed to the summarizer, as the texts that " ".join joins
transcript_text(self) ==
    LET text_of(segment) == segment.text
    IN  MapSeq(self.segments, text_of)

session_summary(self) == summarize(transcript_text(self))

\* append_audio that trims one sample too many
append_audio_off_by_one(self, samples, trim_to) ==
    LET extended == self.audio_buffer \o samples
        overflow == Len(extended) - Val(trim_to)
        buffer == IF trim_to # None /\ Val(trim_to) > 0 /\ overflow > 0
                  THEN Drop(extended, overflow + 1)
                  ELSE extended
    IN  [session |-> [self EXCEPT !.audio_buffer = buffer], ret |-> Len(samples)]

\* append_audio that trims at the wrong end: the newest samples are dropped
append_audio_keeps_oldest(self, samples, trim_to) ==
    LET extended == self.audio_buffer \o samples
        overflow == Len(extended) - Val(trim_to)
        buffer == IF trim_to # None /\ Val(trim_to) > 0 /\ overflow > 0
                  THEN SubSeq(extended, 1, Val(trim_to))
                  ELSE extended
    IN  [session |-> [self EXCEPT !.audio_buffer = buffer], ret |-> Len(samples)]

\* append_audio that applies the trim whenever trim_to is given
append_audio_trims_nonpositive(self, samples, trim_to) ==
    LET extended == self.audio_buffer \o samples
        overflow == Len(extended) - Val(trim_to)
        buffer == IF trim_to # None /\ overflow > 0
                  THEN Drop(extended, Min(overflow, Len(extended)))
                  ELSE extended
    IN  [session |-> [self EXCEPT !.audio_buffer = buffer], ret |-> Len(samples)]

append_audio(self, samples, trim_to) ==
    LET extended == self.audio_buffer \o samples
        overflow == Len(extended) - Val(trim_to)
        buffer == IF trim_to # None /\ Val(trim_to) > 0 /\ overflow > 0
                  THEN Drop(extended, overflow)
                  ELSE extended
    IN  [session |-> [self EXCEPT !.audio_buffer = buffer], ret |-> Len(samples)]

audio_samples(self, max_samples) ==
    IF max_samples = None \/ Val(max_samples) <= 0
    THEN self.audio_buffer
    ELSE LastN(self.audio_buffer, Val(max_samples))

\* audio_samples that returns the buffer itself when it returns all of it
audio_samples_shares_whole(self, max_samples) ==
    max_samples = None \/ Val(max_samples) <= 0

\* whether the list audio_samples returns is the list object audio_buffer is
\* bound to: list(...) and a slice both build a new list
audio_samples_shares(self, max_samples) == FALSE

\* clear_audio that leaves the buffer as it is
clear_audio_noop(self) == self

clear_audio(self) == [self EXCEPT !.audio_buffer = << >>]

export(self) ==
    LET record(segment) ==
            SegmentRecord(segment.speaker, segment.text,
                          dict_get(self.speaker_labels, segment.speaker))
    IN  SessionExport(self.session_id, self.created_at, self.language,
                      MapSeq(self.segments, record), session_summary(self),
                      self.title, self.agenda)

serialized_segments(self) ==
    LET view(segment) ==
            SegmentRecord(segment.speaker, segment.text,
                          dict_get(self.speaker_labels, segment.speaker))
    IN  MapSeq(self.segments, view)

\* SessionStore.restore builds the Session from the manifest; a later segment
\* of the same speaker overwrites the label an earlier one set.
RECURSIVE restored_labels(_, _)
restored_labels(segments, labels) ==
    IF segments = << >>
    THEN labels
    ELSE LET segment == Head(segments)
             truthy == segment.speaker_label # None /\ Val(segment.speaker_label) # ""
         IN  restored_labels(Tail(segments),
                             IF truthy
                             THEN dict_set(labels, segment.speaker, Val(segment.speaker_label))
                             ELSE labels)

restored_session(manifest) ==
    LET plain(segment) == DiarizedSegment(segment.speaker, segment.text)
    IN  [session_id |-> manifest.session_id, language |-> manifest.language,
         created_at |-> manifest.created_at, title |-> manifest.title,
         agenda |-> manifest.agenda, segments |-> MapSeq(manifest.segments, plain),
         speaker_labels |-> restored_labels(manifest.segments, EmptyDict),
         audio_buffer |-> << >>]

(***************************************************************************)
(* sessions.py: class SessionStore.  Every method is one action.  `last`   *)
(* records the call: a KeyError is the result NotFound, and `calls` lists  *)
(* the collaborator requests the call made, in order.                      *)
(***************************************************************************)
Call(op, sid, arg, ret, calls) ==
    [op |-> op, sid |-> sid, arg |-> arg, ret |-> ret, calls |-> calls]

\* results: a record whose fields depend on the operation; status is always there
NotFound == [status |-> "NotFound"]
Done == [status |-> "ok"]
NoArg == [none |-> TRUE]

\* a lookup that puts a fresh session under the unknown id before failing
\* the local variable `session` of a process_audio_buffer call in progress
\* no longer names the object in the store once its id is deleted or bound
\* to a new Session
dropped(session_ids) ==
    IF "session" \in DOMAIN thr /\ thr.sid \in session_ids
    THEN [thr EXCEPT !.session = "dropped"]
    ELSE thr

KeyError_creates_session(op, sid, arg) ==
    /\ last' = Call(op, sid, arg, NotFound, << >>)
    /\ sessions' = dict_set(sessions, sid, Session(sid, "fa", utc(1)))
    /\ UNCHANGED <<held, files, fed, redacted, thr, rate_limiter>>

KeyError(op, sid, arg) ==
    /\ last' = Call(op, sid, arg, NotFound, << >>)
    /\ UNCHANGED <<sessions, held, files, fed, redacted, thr, rate_limiter>>

put(sid, session) == dict_set(sessions, sid, session)

\* What the registry held under session_id when create was called
replaced(session_id) ==
    IF session_id \in DOMAIN sessions THEN Some(sessions[session_id]) ELSE None

\* create that leaves a session already registered under the id in place
SessionStore_create_keeps_existing(session_id, language, now) ==
    /\ sessions' = IF session_id \in DOMAIN sessions
                   THEN sessions
                   ELSE put(session_id, Session(session_id, language, now))
    /\ fed' = fed
    /\ redacted' = redacted
    /\ last' = Call("create", session_id,
                    [language |-> language, replaced |-> replaced(session_id)], Done, << >>)
    /\ thr' = dropped({session_id} \ DOMAIN sessions)
    /\ UNCHANGED <<held, files, rate_limiter>>

SessionStore_create(session_id, language, now) ==
    /\ sessions' = put(session_id, Session(session_id, language, now))
    /\ fed' = [fed EXCEPT ![session_id] = << >>]
    /\ redacted' = {r \in redacted : r.sid # session_id}
    /\ last' = Call("create", session_id,
                    [language |-> language, replaced |-> replaced(session_id)], Done, << >>)
    /\ thr' = dropped({session_id})
    /\ UNCHANGED <<held, files, rate_limiter>>

SessionStore_append(session_id, segments) ==
    IF session_id \notin DOMAIN sessions
    THEN KeyError("append", session_id, [segments |-> segments])
    ELSE LET r == append_segments(sessions[session_id], segments)
         IN  /\ Len(r.session.segments) <= MaxSegs
             /\ sessions' = put(session_id, r.session)
             /\ last' = Call("append", session_id, [segments |-> segments],
                             [status |-> "ok", new_speakers |-> r.ret], << >>)
             /\ UNCHANGED <<held, files, fed, redacted, thr, rate_limiter>>

SessionStore_update_metadata(session_id, title, agenda) ==
    IF session_id \notin DOMAIN sessions
    THEN KeyError("update_metadata", session_id, [title |-> title, agenda |-> agenda])
    ELSE LET r == update_metadata(sessions[session_id], title, agenda)
         IN  /\ sessions' = put(session_id, r.session)
             /\ last' = Call("update_metadata", session_id,
                             [title |-> title, agenda |-> agenda], Done, << >>)
             /\ UNCHANGED <<held, files, fed, redacted, thr, rate_limiter>>

SessionStore_append_audio(session_id, samples, trim_to) ==
    IF session_id \notin DOMAIN sessions
    THEN KeyError("append_audio", session_id, [samples |-> samples, trim_to |-> trim_to])
    ELSE LET r == append_audio(sessions[session_id], samples, trim_to)
         IN  /\ Len(fed[session_id]) + Len(samples) <= MaxBuf
             /\ sessions' = put(session_id, r.session)
             /\ fed' = [fed EXCEPT ![session_id] = @ \o samples]
             /\ last' = Call("append_audio", session_id,
                             [samples |-> samples, trim_to |-> trim_to],
                             [status |-> "ok", added |-> r.ret], << >>)
             /\ UNCHANGED <<held, files, redacted, thr, rate_limiter>>

SessionStore_get(session_id) ==
    IF session_id \notin DOMAIN sessions
    THEN KeyError("get", session_id, NoArg)
    ELSE /\ last' = Call("get", session_id, NoArg,
                         [status |-> "ok", session |-> sessions[session_id]], << >>)
         /\ UNCHANGED <<sessions, held, files, fed, redacted, thr, rate_limiter>>

SessionStore_label(session_id, speaker_id, display_name) ==
    IF session_id \notin DOMAIN sessions
    THEN KeyError("label", session_id,
                  [speaker_id |-> speaker_id, display_name |-> display_name])
    ELSE LET r == label_speaker(sessions[session_id], speaker_id, display_name)
         IN  /\ sessions' = put(session_id, r.session)
             /\ last' = Call("label", session_id,
                             [speaker_id |-> speaker_id, display_name |-> display_name],
                             Done, << >>)
             /\ UNCHANGED <<held, files, fed, redacted, thr, rate_limiter>>

\* history of what a forget scrubbed: position, speaker and the text replaced
scrubbed_texts(session_id, self, speaker_id, redaction_text) ==
    {[sid |-> session_id, index |-> i, speaker |-> speaker_id, text |-> self.segments[i].text] :
        i \in {j \in 1..Len(self.segments) :
                  /\ self.segments[j].speaker = speaker_id
                  /\ self.segments[j].text # redaction_text}}

SessionStore_forget(session_id, speaker_id, redaction_text) ==
    IF session_id \notin DOMAIN sessions
    THEN KeyError("forget", session_id,
                  [speaker_id |-> speaker_id, redaction_text |-> redaction_text])
    ELSE LET r == forget_speaker(sessions[session_id], speaker_id, redaction_text)
         IN  /\ sessions' = put(session_id, r.session)
             /\ redacted' = redacted \cup
                    scrubbed_texts(session_id, sessions[session_id], speaker_id, redaction_text)
             /\ last' = Call("forget", session_id,
                             [speaker_id |-> speaker_id, redaction_text |-> redaction_text],
                             [status |-> "ok", scrubbed |-> r.ret], << >>)
             /\ UNCHANGED <<held, files, fed, thr, rate_limiter>>

\* the one request Session.summary makes to the summarization collaborator
summarizer_request(self) == [service |-> "summarizer", transcript |-> transcript_text(self)]

SessionStore_summary(session_id) ==
    IF session_id \notin DOMAIN sessions
    THEN KeyError("summary", session_id, NoArg)
    ELSE /\ last' = Call("summary", session_id, NoArg,
                         [status |-> "ok", summary |-> session_summary(sessions[session_id])],
                         <<summarizer_request(sessions[session_id])>>)
         /\ UNCHANGED <<sessions, held, files, fed, redacted, thr, rate_limiter>>

\* export that hands out again the manifest a caller was handed before
SessionStore_export_cached(session_id, keep) ==
    IF session_id \notin DOMAIN sessions
    THEN KeyError("export", session_id, NoArg)
    ELSE LET manifest == IF held # None THEN Val(held) ELSE export(sessions[session_id])
         IN  /\ held' = IF keep THEN Some(manifest) ELSE held
             /\ last' = Call("export", session_id, NoArg,
                             [status |-> "ok", manifest |-> manifest],
                             <<summarizer_request(sessions[session_id])>>)
             /\ UNCHANGED <<sessions, files, fed, redacted, thr, rate_limiter>>

\* an export that closes the session it has exported
SessionStore_export_closes(session_id, keep) ==
    IF session_id \notin DOMAIN sessions
    THEN KeyError("export", session_id, NoArg)
    ELSE LET manifest == export(sessions[session_id])
         IN  /\ held' = IF keep THEN Some(manifest) ELSE held
             /\ sessions' = dict_pop(sessions, session_id)
             /\ last' = Call("export", session_id, NoArg,
                             [status |-> "ok", manifest |-> manifest],
                             <<summarizer_request(sessions[session_id])>>)
             /\ UNCHANGED <<files, fed, redacted, thr, rate_limiter>>

\* keep: whether the caller keeps the manifest it is handed
SessionStore_export(session_id, keep) ==
    IF session_id \notin DOMAIN sessions
    THEN KeyError("export", session_id, NoArg)
    ELSE LET manifest == export(sessions[session_id])
         IN  /\ held' = IF keep THEN Some(manifest) ELSE held
             /\ last' = Call("export", session_id, NoArg,
                             [status |-> "ok", manifest |-> manifest],
                             <<summarizer_request(sessions[session_id])>>)
             /\ UNCHANGED <<sessions, files, fed, redacted, thr, rate_limiter>>

SessionStore_audio_samples(session_id, max_samples) ==
    IF session_id \notin DOMAIN sessions
    THEN KeyError("audio_samples", session_id, [max_samples |-> max_samples])
    ELSE /\ last' = Call("audio_samples", session_id, [max_samples |-> max_samples],
                         [status |-> "ok",
                          samples |-> audio_samples(sessions[session_id], max_samples),
                          shared |-> audio_samples_shares(sessions[session_id], max_samples)],
                         << >>)
         /\ UNCHANGED <<sessions, held, files, fed, redacted, thr, rate_limiter>>

\* the caller of audio_samples appends a sample to the list it was returned;
\* the session's buffer grows with it when the two are one list object
extend_returned(session_id, sample) ==
    /\ last.op = "audio_samples" /\ last.ret.status = "ok" /\ last.sid = session_id
    /\ sessions' = IF last.ret.shared
                   THEN put(session_id, [sessions[session_id] EXCEPT !.audio_buffer = @ \o <<sample>>])
                   ELSE sessions
    /\ last' = Call("extend_returned", session_id,
                    [max_samples |-> last.arg.max_samples, returned |-> last.ret.samples,
                     sample |-> sample], Done, << >>)
    /\ UNCHANGED <<held, files, fed, redacted, thr, rate_limiter>>

(***************************************************************************)
(* stt/whisper_service.py, the text path: the transcript echoes the        *)
(* request.  The diarizer is a collaborator whose answer is an input of    *)
(* the call (diarized).                                                    *)
(***************************************************************************)
Transcript(language, segments) == [language |-> language, segments |-> segments]

transcribe(content, language) == Transcript(language, <<content>>)

\* f"{transcript_text}: {'; '.join(span_descriptions)}" as its parts
\* a request text that describes the first span only
transcript_request_first_span(transcript_hint, spans) ==
    LET describe(span) == <<"buffer", span.start_index, span.end_index>>
    IN  [hint |-> IF strip(transcript_hint) # << >>
                  THEN strip(transcript_hint)
                  ELSE <<"b", "u", "f", "f", "e", "r", "e", "d", " ", "a", "u", "d", "i", "o">>,
         descriptions |-> <<describe(spans[1])>>]

transcript_request(transcript_hint, spans) ==
    LET describe(span) == <<"buffer", span.start_index, span.end_index>>
    IN  [hint |-> IF strip(transcript_hint) # << >>
                  THEN strip(transcript_hint)
                  ELSE <<"b", "u", "f", "f", "e", "r", "e", "d", " ", "a", "u", "d", "i", "o">>,
         descriptions |-> MapSeq(spans, describe)]

SessionStore_process_audio_buffer(session_id, threshold, min_run, transcript_hint, clear_buffer, diarized) ==
    LET arg == [threshold |-> threshold, min_run |-> min_run,
                transcript_hint |-> transcript_hint, clear_buffer |-> clear_buffer]
    IN
    IF session_id \notin DOMAIN sessions
    THEN KeyError("process_audio_buffer", session_id, arg)
    ELSE LET session == sessions[session_id]
             spans == detect_speech(session.audio_buffer, threshold, min_run)
         IN  IF spans = << >>
             THEN /\ last' = Call("process_audio_buffer", session_id, arg,
                                  [status |-> "ok", spans |-> spans, new_speakers |-> << >>],
                                  << >>)
                  /\ UNCHANGED <<sessions, held, files, fed, redacted, thr, rate_limiter>>
             ELSE LET request == transcript_request(transcript_hint, spans)
                      transcript == transcribe(request, session.language)
                      plain(s) == DiarizedSegment(s.speaker, s.text)
                      manifest_segments == MapSeq(diarized, plain)
                      r == append_segments(sessions[session_id], manifest_segments)
                      after == IF clear_buffer THEN clear_audio(r.session) ELSE r.session
                  IN  /\ Len(r.session.segments) <= MaxSegs
                      /\ sessions' = put(session_id, after)
                      /\ fed' = IF clear_buffer
                                THEN [fed EXCEPT ![session_id] = << >>]
                                ELSE fed
                      /\ last' = Call("process_audio_buffer", session_id, arg,
                                      [status |-> "ok", spans |-> spans, new_speakers |-> r.ret],
                                      << [service |-> "stt", text |-> request,
                                          language |-> session.language],
                                         [service |-> "diarization", transcript |-> transcript,
                                          returned |-> diarized] >>)
                      /\ UNCHANGED <<held, files, redacted, thr, rate_limiter>>

SessionStore_delete(session_id) ==
    IF session_id \notin DOMAIN sessions
    THEN KeyError("delete", session_id, NoArg)
    ELSE /\ sessions' = dict_pop(sessions, session_id)
         /\ fed' = [fed EXCEPT ![session_id] = << >>]
         /\ redacted' = {r \in redacted : r.sid # session_id}
         /\ last' = Call("delete", session_id, NoArg, Done, << >>)
         /\ thr' = dropped({session_id})
         /\ UNCHANGED <<held, files, rate_limiter>>

SessionStore_clear ==
    /\ sessions' = EmptyDict
    /\ fed' = [id \in DOMAIN fed |-> << >>]
    /\ redacted' = {}
    /\ last' = Call("clear", "", NoArg, Done, << >>)
    /\ thr' = dropped(DOMAIN sessions)
    /\ UNCHANGED <<held, files, rate_limiter>>

\* restore that hydrates into the session already registered under the id,
\* keeping its audio buffer
SessionStore_restore_keeps_buffer(manifest) ==
    LET id == manifest.session_id
        buffer == IF id \in DOMAIN sessions THEN sessions[id].audio_buffer ELSE << >>
    IN  /\ sessions' = put(id, [restored_session(manifest) EXCEPT !.audio_buffer = buffer])
        /\ fed' = [fed EXCEPT ![id] = << >>]
        /\ last' = Call("restore", id,
                        [export |-> manifest, replaced |-> replaced(id)], Done, << >>)
        /\ thr' = dropped({id})
        /\ UNCHANGED <<held, files, redacted, rate_limiter>>

SessionStore_restore(manifest) ==
    /\ sessions' = put(manifest.session_id, restored_session(manifest))
    /\ fed' = [fed EXCEPT ![manifest.session_id] = << >>]
    /\ last' = Call("restore", manifest.session_id,
                    [export |-> manifest, replaced |-> replaced(manifest.session_id)],
                    Done, << >>)
    /\ thr' = dropped({manifest.session_id})
    /\ UNCHANGED <<held, files, redacted, rate_limiter>>

(***************************************************************************)
(* api/server.py: class RateLimiter.  Time is counted in ticks of half a   *)
(* minute.  now is "injected" when the constructor is given a clock, which *)
(* then reads the time of day, and "uuid1_time" when it is left out: the   *)
(* default is uuid.uuid1().time, an int, and calling it raises TypeError.  *)
(* time and granted are not attributes of the limiter: the time of day,    *)
(* and the times of all requests granted so far under a limit.             *)
(***************************************************************************)
Minute == 2

RateLimiter(max_requests_per_minute, now) ==
    [max_requests_per_minute |-> max_requests_per_minute, now |-> now,
     events |-> << >>, time |-> 0, granted |-> << >>]

\* while self._events and self._events[0] < cutoff: self._events.popleft()
RECURSIVE popleft_expired(_, _)
popleft_expired(events, cutoff) ==
    IF events # << >> /\ Head(events) < cutoff
    THEN popleft_expired(Tail(events), cutoff)
    ELSE events

\* allow() called at the time of day `time`
allow(self, time) ==
    LET arrived == [self EXCEPT !.time = time]
        events == popleft_expired(self.events, time - Minute)
    IN  IF self.max_requests_per_minute = None
        THEN [self |-> arrived, ret |-> "True"]
        ELSE IF self.now # "injected"
        THEN [self |-> arrived, ret |-> "TypeError"]
        ELSE IF Len(events) >= Val(self.max_requests_per_minute)
        THEN [self |-> [arrived EXCEPT !.events = events], ret |-> "False"]
        ELSE [self |-> [arrived EXCEPT !.events = Append(events, time),
                                       !.granted = Append(@, time)],
              ret |-> "True"]

\* the middleware in front of every handler, without an API key configured:
\* a request arrives `advance` ticks after the one before it
enforce_security(advance) ==
    LET time == rate_limiter.time + advance
        r == allow(rate_limiter, time)
    IN  /\ time <= MaxTick
        /\ rate_limiter' = r.self
        /\ last' = Call("request", "", [time |-> time],
                        [status |-> CASE r.ret = "True" -> "ok"
                                      [] r.ret = "False" -> "TooManyRequests"
                                      [] OTHER -> r.ret,
                         handled |-> r.ret = "True"], << >>)
        /\ UNCHANGED <<sessions, held, files, fed, redacted, thr>>

(***************************************************************************)
(* The store with one session id, driven by sequential callers.            *)
(***************************************************************************)
NoThreads == << >>

Init ==
    /\ sessions = EmptyDict
    /\ held = None
    /\ files = EmptyDict
    /\ last = Call("init", "", NoArg, Done, << >>)
    /\ fed = [id \in SessionIds |-> << >>]
    /\ redacted = {}
    /\ thr = NoThreads
    /\ rate_limiter = RateLimiter(None, "uuid1_time")

SpecIds == {"s1"}
SegmentInputs == {DiarizedSegment(sp, t) : sp \in Speakers, t \in Texts}
AppendInputs == SeqsUpTo(SegmentInputs, 2) \ {<< >>}
Hints == {<<"h", " ">>}

Next ==
    \/ \E id \in SpecIds, c \in {<<"fa", utc(1)>>, <<"en", utc(2)>>} :
           SessionStore_create(id, c[1], c[2])
    \/ \E id \in SpecIds, segs \in AppendInputs : SessionStore_append(id, segs)
    \/ \E id \in SpecIds, l \in {<<"spk_A", "Ali">>, <<"spk_A", "">>, <<"spk_B", "">>} :
           SessionStore_label(id, l[1], l[2])
    \/ \E id \in SpecIds, sp \in Speakers, r \in Redactions : SessionStore_forget(id, sp, r)
    \/ \E id \in SpecIds,
           m \in {<<Some(<<" ", "T", " ">>), Some(<< <<"x", " ">>, <<" ">> >>)>>,
                  <<Some(<<" ">>), Some(<< >>)>>} :
           SessionStore_update_metadata(id, m[1], m[2])
    \/ \E id \in SpecIds, x \in {<<1>>}, t \in {Some(1)} : SessionStore_append_audio(id, x, t)
    \/ \E id \in SpecIds, c \in BOOLEAN, d \in (SeqsUpTo(SegmentInputs, 1)), h \in Hints :
           SessionStore_process_audio_buffer(id, 1, 1, h, c, d)
    \/ \E id \in SpecIds : SessionStore_export(id, FALSE)
    \/ \E id \in SpecIds : SessionStore_delete(id)

Spec == Init /\ [][Next]_vars

(***************************************************************************)
(* Callers that also use a session id the registry never held ("s2"): no   *)
(* create is ever made for it, so every call on it finds no session, while *)
(* the session under "s1" lives through its calls.                         *)
(***************************************************************************)
KnownIds == {"s1"}

NextMissing ==
    \/ \E id \in KnownIds : SessionStore_create(id, "fa", utc(1))
    \/ \E id \in SessionIds : SessionStore_get(id)
    \/ \E id \in SessionIds : SessionStore_append(id, <<DiarizedSegment("spk_A", "salam")>>)
    \/ \E id \in SessionIds : SessionStore_label(id, "spk_A", "Ali")
    \/ \E id \in SessionIds, r \in Redactions : SessionStore_forget(id, "spk_A", r)
    \/ \E id \in SessionIds, t \in {Some(1)} : SessionStore_append_audio(id, <<1>>, t)
    \/ \E id \in SessionIds : SessionStore_audio_samples(id, None)
    \/ \E id \in SessionIds : SessionStore_update_metadata(id, Some(<<"T">>), None)
    \/ \E id \in SessionIds : SessionStore_delete(id)
    \/ \E id \in SessionIds : SessionStore_summary(id)
    \/ \E id \in SessionIds : SessionStore_export(id, FALSE)
    \/ \E id \in SessionIds, c \in BOOLEAN, h \in Hints :
           SessionStore_process_audio_buffer(id, 1, 1, h, c, <<DiarizedSegment("spk_A", "salam")>>)

SpecMissing == Init /\ [][NextMissing]_vars

(***************************************************************************)
(* Callers that keep an exported manifest and restore from it later.       *)
(***************************************************************************)
NextRestore ==
    \/ \E id \in SpecIds, c \in {<<"fa", utc(1)>>, <<"en", utc(2)>>} :
           SessionStore_create(id, c[1], c[2])
    \/ \E id \in SpecIds, segs \in AppendInputs : SessionStore_append(id, segs)
    \/ \E id \in SpecIds, l \in {<<"spk_A", "Ali">>, <<"spk_A", "">>, <<"spk_B", "">>} :
           SessionStore_label(id, l[1], l[2])
    \/ \E id \in SpecIds, sp \in Speakers, r \in Redactions : SessionStore_forget(id, sp, r)
    \/ \E id \in SpecIds : SessionStore_export(id, TRUE)
    \/ held # None /\ SessionStore_restore(Val(held))
    \/ \E id \in SpecIds : SessionStore_delete(id)

SpecRestore == Init /\ [][NextRestore]_vars

(***************************************************************************)
(* Callers that restore manifests of two session ids over whatever the     *)
(* registry holds under them: nothing, a fresh session, or one with        *)
(* segments, a label and buffered audio.                                   *)
(***************************************************************************)
RestoreManifests ==
    LET text_of(segment) == segment.text
    IN  {SessionExport(id, utc(1), "fa", segs, summarize(MapSeq(segs, text_of)),
                       Some(<<"T">>), << <<"x">> >>) :
            id \in SessionIds,
            segs \in {<< >>,
                      <<SegmentRecord("spk_B", "salam", Some("Bita"))>>,
                      <<SegmentRecord("spk_B", "salam", Some("Bita")),
                        SegmentRecord("spk_B", "salam", None)>>}}

NextRehydrate ==
    \/ \E id \in KnownIds : SessionStore_create(id, "en", utc(2))
    \/ \E id \in SessionIds : SessionStore_append(id, <<DiarizedSegment("spk_A", "salam")>>)
    \/ \E id \in KnownIds : SessionStore_label(id, "spk_A", "Ali")
    \/ \E id \in SessionIds : SessionStore_append_audio(id, <<1>>, None)
    \/ \E m \in RestoreManifests : SessionStore_restore(m)

SpecRehydrate == Init /\ [][NextRehydrate]_vars

(***************************************************************************)
(* The audio path of one session: buffering, trimming, reading and the     *)
(* VAD-gated processing, next to the operations that must leave the        *)
(* buffer alone.                                                           *)
(***************************************************************************)
AudioSegment == DiarizedSegment("spk_A", "salam")
NextAudio ==
    \/ \E id \in SpecIds : SessionStore_create(id, "fa", utc(1))
    \/ \E id \in SpecIds, x \in (SeqsUpTo({-2, 1}, 2) \ {<< >>}), t \in ({None} \cup {Some(n) : n \in 1..2}) :
           SessionStore_append_audio(id, x, t)
    \/ \E id \in SpecIds, n \in ({None} \cup {Some(n) : n \in 1..2}) :
           SessionStore_audio_samples(id, n)
    \/ \E id \in SpecIds, th \in {1, 2}, run \in 1..MaxRun, c \in BOOLEAN, h \in Hints :
           SessionStore_process_audio_buffer(id, th, run, h, c, <<AudioSegment>>)
    \/ \E id \in SpecIds : SessionStore_append(id, <<AudioSegment>>)
    \/ \E id \in SpecIds : SessionStore_label(id, "spk_A", "Ali")
    \/ \E id \in SpecIds, r \in Redactions : SessionStore_forget(id, "spk_A", r)
    \/ \E id \in SpecIds : SessionStore_update_metadata(id, Some(<<"T", " ">>), None)
    \/ \E id \in SpecIds : SessionStore_export(id, FALSE)
    \/ \E id \in SpecIds : SessionStore_summary(id)

SpecAudio == Init /\ [][NextAudio]_vars

(***************************************************************************)
(* detect_speech on its own, as POST /vad calls it: a request with up to   *)
(* MaxVadLen samples has arrived, and the handler answers it.              *)
(***************************************************************************)
InitVad ==
    /\ sessions = EmptyDict
    /\ held = None
    /\ files = EmptyDict
    /\ \E samples \in SeqsUpTo({-2, 0, 1}, MaxVadLen), th \in {1, 2}, run \in 1..MaxRun :
           last = Call("vad_request", "",
                       [samples |-> samples, threshold |-> th, min_run |-> run], Done, << >>)
    /\ fed = [id \in SessionIds |-> << >>]
    /\ redacted = {}
    /\ thr = NoThreads
    /\ rate_limiter = RateLimiter(None, "uuid1_time")

Detect ==
    /\ last.op = "vad_request"
    /\ last' = Call("detect_speech", "", last.arg,
                    [status |-> "ok",
                     spans |-> detect_speech(last.arg.samples, last.arg.threshold,
                                             last.arg.min_run)],
                    << >>)
    /\ UNCHANGED <<sessions, held, files, fed, redacted, thr, rate_limiter>>

NextVad == Detect

SpecVad == InitVad /\ [][NextVad]_vars

(***************************************************************************)
(* storage/persistence.py.  A stored file is the JSON document that        *)
(* json.dumps wrote: a record of the payload's keys.  isoformat() of a     *)
(* datetime is the date part and the UTC offset ("" when naive).           *)
(***************************************************************************)
isoformat(dt) == <<dt.day, IF dt.tzinfo = "UTC" THEN "+00:00" ELSE "">>
fromisoformat(text) == datetime(text[1], IF text[2] = "+00:00" THEN "UTC" ELSE "none")

payload_of(export_) ==
    LET entry(segment) ==
            [speaker |-> segment.speaker, text |-> segment.text,
             speaker_label |-> segment.speaker_label]
    IN  [session_id |-> export_.session_id,
         created_at |-> isoformat(export_.created_at),
         language |-> export_.language,
         segments |-> MapSeq(export_.segments, entry),
         summary |-> [highlight |-> export_.summary.highlight,
                      bullet_points |-> export_.summary.bullet_points]]

\* the SessionExport that load_export builds from a stored document; title
\* and agenda are not passed and take the dataclass defaults
parsed_export(payload) ==
    LET record(segment) ==
            SegmentRecord(segment.speaker, segment.text, segment.speaker_label)
    IN  SessionExport(payload.session_id, fromisoformat(payload.created_at),
                      payload.language, MapSeq(payload.segments, record),
                      Summary(payload.summary.bullet_points, payload.summary.highlight),
                      None, << >>)

\* What can lie in the exports directory besides the documents save_export
\* wrote: a file that is not JSON, a document without created_at, and one
\* whose created_at is not an ISO-8601 text.
NotJson == [not_json |-> TRUE]
without_created_at(payload) == [key \in DOMAIN payload \ {"created_at"} |-> payload[key]]
bad_created_at(payload) == [payload EXCEPT !.created_at = <<0, "?">>]

\* json.loads(path.read_text()) returns
json_loads(document) == "not_json" \notin DOMAIN document
\* datetime.fromisoformat(text) returns
is_isoformat(text) == text[2] \in {"+00:00", ""}
\* json.loads, payload["created_at"] and fromisoformat all return
reads_created_at(document) ==
    /\ json_loads(document)
    /\ "created_at" \in DOMAIN document
    /\ is_isoformat(document.created_at)

\* something other than save_export writes <stem>.json
write_file(stem, document) ==
    /\ files' = dict_set(files, stem, document)
    /\ last' = Call("write_file", stem, [document |-> document], Done, << >>)
    /\ UNCHANGED <<sessions, held, fed, redacted, thr, rate_limiter>>

save_export(export_) ==
    /\ files' = dict_set(files, export_.session_id, payload_of(export_))
    /\ last' = Call("save_export", export_.session_id, [export |-> export_],
                    [status |-> "ok", path |-> export_.session_id], << >>)
    /\ UNCHANGED <<sessions, held, fed, redacted, thr, rate_limiter>>

load_export(session_id) ==
    /\ last' = Call("load_export", session_id, NoArg,
                    IF session_id \notin DOMAIN files
                    THEN NotFound
                    ELSE IF ~reads_created_at(files[session_id])
                    THEN [status |-> "Exception"]
                    ELSE [status |-> "ok", manifest |-> parsed_export(files[session_id])],
                    << >>)
    /\ UNCHANGED <<sessions, held, files, fed, redacted, thr, rate_limiter>>

\* the order of Python strings on the session ids used as file stems
Lexicographic == <<"s1", "s2", "s3">>
rank(stem) == CHOOSE i \in 1..Len(Lexicographic) : Lexicographic[i] = stem

\* sorted(): the list in ascending order, built by inserting each element
\* behind the elements that do not come after it
RECURSIVE sorted(_)
sorted(list) ==
    IF list = << >>
    THEN << >>
    ELSE LET rest == sorted(Tail(list))
             not_after(stem) == rank(stem) <= rank(Head(list))
             after(stem) == rank(stem) > rank(Head(list))
         IN  SelectSeq(rest, not_after) \o <<Head(list)>> \o SelectSeq(rest, after)

\* current - timedelta(days=max_age_days)
minus_days(current, max_age_days) == datetime(current.day - max_age_days, current.tzinfo)

\* the created_at prune_exports reads from a stored document: a naive one is
\* taken as UTC
created_at_utc(payload) ==
    LET created_at == fromisoformat(payload.created_at)
    IN  IF created_at.tzinfo = "none" THEN utc(created_at.day) ELSE created_at

\* the loop of prune_exports over the paths glob yields, from the files on
\* disk and the list removed so far to the two when the loop ends
RECURSIVE prune_loop(_, _, _, _)
prune_loop(paths, cutoff, disk, removed) ==
    IF paths = << >>
    THEN [disk |-> disk, removed |-> removed]
    ELSE LET stem == Head(paths)
         IN  IF ~reads_created_at(disk[stem])
             THEN prune_loop(Tail(paths), cutoff, disk, removed)
             ELSE IF created_at_utc(disk[stem]).day < cutoff.day
             THEN prune_loop(Tail(paths), cutoff, dict_pop(disk, stem), Append(removed, stem))
             ELSE prune_loop(Tail(paths), cutoff, disk, removed)

\* the record of a prune call; previous is the prune call made directly
\* before it, if the call before it was one
pruned(max_age_days, now, removed) ==
    Call("prune_exports", "",
         [max_age_days |-> max_age_days, now |-> now,
          previous |-> IF last.op = "prune_exports"
                       THEN Some([max_age_days |-> last.arg.max_age_days,
                                  now |-> last.arg.now, removed |-> last.ret.removed])
                       ELSE None],
         [status |-> "ok", removed |-> removed], << >>)

\* prune_exports that returns the removed ids in the order the files were met
prune_exports_unsorted(max_age_days, now, paths) ==
    LET r == prune_loop(paths, minus_days(now, max_age_days), files, << >>)
    IN  /\ files' = r.disk
        /\ last' = pruned(max_age_days, now, r.removed)
        /\ UNCHANGED <<sessions, held, fed, redacted, thr, rate_limiter>>

\* prune_exports that also removes a manifest created exactly at the cutoff
prune_exports_at_cutoff(max_age_days, now, paths) ==
    LET r == prune_loop(paths, minus_days(now, max_age_days - 1), files, << >>)
    IN  /\ files' = r.disk
        /\ last' = pruned(max_age_days, now, sorted(r.removed))
        /\ UNCHANGED <<sessions, held, fed, redacted, thr, rate_limiter>>

\* prune_exports that stops after the first manifest it removes
prune_exports_one_per_sweep(max_age_days, now, paths) ==
    LET r == prune_loop(paths, minus_days(now, max_age_days), files, << >>)
        first == SubSeq(r.removed, 1, Min(1, Len(r.removed)))
    IN  /\ files' = IF first = << >> THEN files ELSE dict_pop(files, first[1])
        /\ last' = pruned(max_age_days, now, first)
        /\ UNCHANGED <<sessions, held, fed, redacted, thr, rate_limiter>>

\* prune_exports that unlinks the files it cannot read, without reporting them
prune_exports_drops_unreadable(max_age_days, now, paths) ==
    LET r == prune_loop(paths, minus_days(now, max_age_days), files, << >>)
        readable == {stem \in DOMAIN r.disk : reads_created_at(r.disk[stem])}
    IN  /\ files' = [stem \in readable |-> r.disk[stem]]
        /\ last' = pruned(max_age_days, now, sorted(r.removed))
        /\ UNCHANGED <<sessions, held, fed, redacted, thr, rate_limiter>>

\* paths is the order in which glob yields the stored files; now is an aware
\* UTC datetime, as the default and every caller's value are
prune_exports(max_age_days, now, paths) ==
    LET r == prune_loop(paths, minus_days(now, max_age_days), files, << >>)
    IN  /\ files' = r.disk
        /\ last' = pruned(max_age_days, now, sorted(r.removed))
        /\ UNCHANGED <<sessions, held, fed, redacted, thr, rate_limiter>>

\* every order glob can yield the stored files in
glob(disk) ==
    {paths \in [1..Cardinality(DOMAIN disk) -> DOMAIN disk] :
        \A i, j \in DOMAIN paths : i # j => paths[i] # paths[j]}

\* list_exports that returns the stems in the order glob yields them
list_exports_unsorted(paths) ==
    /\ last' = Call("list_exports", "", NoArg, [status |-> "ok", exports |-> paths], << >>)
    /\ UNCHANGED <<sessions, held, files, fed, redacted, thr, rate_limiter>>

\* an exports directory that does not exist and an empty one both yield
\* the empty list
list_exports(paths) ==
    /\ last' = Call("list_exports", "", NoArg, [status |-> "ok", exports |-> sorted(paths)], << >>)
    /\ UNCHANGED <<sessions, held, files, fed, redacted, thr, rate_limiter>>

ExportIds == {"s1", "s2", "s3"}
\* a manifest without segments that has a title and an agenda, and one with
\* segments that has neither
StoredContents ==
    {[segments |-> << >>, title |-> Some(<<"T">>), agenda |-> << <<"x">> >>],
     [segments |-> <<SegmentRecord("spk_B", "salam", Some("Bita")),
                     SegmentRecord("spk_A", "[redacted]", None)>>,
      title |-> None, agenda |-> << >>]}

StoredExports ==
    LET text_of(segment) == segment.text
    IN  {SessionExport(id, at, "fa", c.segments, summarize(MapSeq(c.segments, text_of)),
                       c.title, c.agenda) :
            id \in ExportIds, at \in {utc(1), utc(2), naive(1)}, c \in StoredContents}

\* the files that do not parse, made from a document save_export writes
Malformed(stem) ==
    LET payload == payload_of(SessionExport(stem, utc(1), "fa", << >>, summarize(<< >>),
                                            None, << >>))
    IN  {NotJson, without_created_at(payload), bad_created_at(payload)}

NextPersist ==
    \/ \E m \in StoredExports : save_export(m)
    \/ \E stem \in ExportIds : \E document \in Malformed(stem) : write_file(stem, document)
    \/ \E id \in ExportIds : load_export(id)
    \/ \E max_age_days \in {0, 1}, now \in {utc(2), utc(3)}, paths \in glob(files) :
           prune_exports(max_age_days, now, paths)
    \/ \E paths \in glob(files) : list_exports(paths)

SpecPersist == Init /\ [][NextPersist]_vars

(***************************************************************************)
(* The derived views of a session, read by a caller that got the session   *)
(* from the store, next to the operations that change the session and a    *)
(* caller that keeps a manifest it was handed.                             *)
(***************************************************************************)
metadata_view(self) ==
    [title |-> self.title, agenda |-> self.agenda, created_at |-> isoformat(self.created_at)]

\* sessions.get(session_id), then serialized_segments() and metadata_view()
Session_views(session_id) ==
    IF session_id \notin DOMAIN sessions
    THEN KeyError("views", session_id, NoArg)
    ELSE /\ last' = Call("views", session_id, NoArg,
                         [status |-> "ok",
                          segments |-> serialized_segments(sessions[session_id]),
                          metadata |-> metadata_view(sessions[session_id])], << >>)
         /\ UNCHANGED <<sessions, held, files, fed, redacted, thr, rate_limiter>>

NextViews ==
    \/ \E id \in SpecIds : SessionStore_create(id, "fa", utc(1))
    \/ \E id \in SpecIds : SessionStore_append(id, <<DiarizedSegment("spk_A", "salam")>>)
    \/ \E id \in SpecIds : SessionStore_label(id, "spk_A", "Ali")
    \/ \E id \in SpecIds, r \in Redactions : SessionStore_forget(id, "spk_A", r)
    \/ \E id \in SpecIds :
           SessionStore_update_metadata(id, Some(<<"T", " ">>), Some(<< <<"x">> >>))
    \/ \E id \in SpecIds, keep \in BOOLEAN : SessionStore_export(id, keep)
    \/ \E id \in SpecIds : SessionStore_summary(id)
    \/ \E id \in SpecIds : Session_views(id)

SpecViews == Init /\ [][NextViews]_vars

(***************************************************************************)
(* Metadata updates with every combination of given and omitted title and  *)
(* agenda, on a session that has a segment, a label and buffered audio.    *)
(***************************************************************************)
NextMetadata ==
    \/ \E id \in SpecIds : SessionStore_create(id, "fa", utc(1))
    \/ \E id \in SpecIds : SessionStore_append(id, <<DiarizedSegment("spk_A", "salam")>>)
    \/ \E id \in SpecIds : SessionStore_label(id, "spk_A", "Ali")
    \/ \E id \in SpecIds : SessionStore_append_audio(id, <<1>>, None)
    \/ \E id \in SpecIds,
           title \in {None, Some(<< >>), Some(<<" ">>), Some(<<" ", "T", " ", "U", " ">>),
                      Some(<<"V">>)},
           agenda \in {None, Some(<< >>), Some(<< <<" ">>, << >> >>),
                       Some(<< <<" ", "x">>, <<" ">>, <<"y", " ", "z", " ">> >>),
                       Some(<< <<"y">>, <<"x">> >>)} :
           SessionStore_update_metadata(id, title, agenda)

SpecMetadata == Init /\ [][NextMetadata]_vars

(***************************************************************************)
(* Readers of the audio buffer: every kind of max_samples on buffers of    *)
(* every length, and callers that change the list they were returned.      *)
(***************************************************************************)
NextSamples ==
    \/ \E id \in SpecIds : SessionStore_create(id, "fa", utc(1))
    \/ \E id \in SpecIds, x \in (SeqsUpTo({-2, 1}, 2) \ {<< >>}), t \in {None, Some(0), Some(-1)} :
           SessionStore_append_audio(id, x, t)
    \/ \E id \in SpecIds, n \in {None, Some(-1), Some(0), Some(1), Some(2), Some(MaxBuf + 1)} :
           SessionStore_audio_samples(id, n)
    \/ \E id \in SpecIds : extend_returned(id, 0)

SpecSamples == Init /\ [][NextSamples]_vars

(***************************************************************************)
(* storage/manifests.py: the downloadable renderings, as the parts their   *)
(* lines are built from.                                                   *)
(***************************************************************************)
rendered(export_, format, fallback) ==
    LET line(segment) ==
            [speaker |-> IF segment.speaker_label # None /\ Val(segment.speaker_label) # ""
                         THEN Val(segment.speaker_label)
                         ELSE segment.speaker,
             text |-> segment.text]
    IN  [format |-> format,
         header |-> IF export_.title # None /\ Val(export_.title) # << >>
                    THEN export_.title
                    ELSE Some(fallback),
         created |-> isoformat(export_.created_at),
         language |-> export_.language,
         agenda |-> export_.agenda,
         highlight |-> export_.summary.highlight,
         bullet_points |-> export_.summary.bullet_points,
         timeline |-> MapSeq(export_.segments, line)]

render_markdown(export_) == rendered(export_, "markdown", <<"Session ", export_.session_id>>)
render_text(export_) == rendered(export_, "text", <<export_.session_id>>)

(***************************************************************************)
(* api/server.py: the request handlers.  A handler is one action; an       *)
(* HTTPException 400 is the result Invalid and a 404 the result NotFound.  *)
(***************************************************************************)
Invalid == [status |-> "InvalidArgument"]

\* raise HTTPException(...): the handler ends and nothing was changed
Reject(op, sid, arg, ret) ==
    /\ last' = Call(op, sid, arg, ret, << >>)
    /\ UNCHANGED <<sessions, held, files, fed, redacted, thr, rate_limiter>>

\* POST /vad
run_vad(samples, threshold, min_run) ==
    LET arg == [samples |-> samples, threshold |-> threshold, min_run |-> min_run]
        spans == detect_speech(samples, threshold, min_run)
    IN  IF min_run < 1
        THEN Reject("run_vad", "", arg, Invalid)
        ELSE Reject("run_vad", "", arg,
                    [status |-> "ok", triggered |-> spans # << >>, spans |-> spans])

\* f"{transcript_text}: {'; '.join(span_descriptions)}" as its parts
ingest_request(transcript_hint, spans) ==
    LET describe(span) == <<"speech", span.start_index, span.end_index>>
    IN  [hint |-> IF strip(transcript_hint) # << >>
                  THEN strip(transcript_hint)
                  ELSE <<"s", "p", "e", "e", "c", "h", " ", "d", "e", "t", "e", "c", "t", "e", "d">>,
         descriptions |-> MapSeq(spans, describe)]

\* POST /sessions/{session_id}/ingest
ingest_session_audio(session_id, samples, threshold, min_run, transcript_hint, diarized) ==
    LET arg == [samples |-> samples, threshold |-> threshold, min_run |-> min_run,
                transcript_hint |-> transcript_hint]
        spans == detect_speech(samples, threshold, min_run)
    IN  IF min_run < 1
        THEN Reject("ingest_session_audio", session_id, arg, Invalid)
        ELSE IF spans = << >>
        THEN Reject("ingest_session_audio", session_id, arg,
                    [status |-> "ok", triggered |-> FALSE, spans |-> << >>,
                     segments |-> << >>, new_speakers |-> << >>])
        ELSE IF session_id \notin DOMAIN sessions
        THEN Reject("ingest_session_audio", session_id, arg, NotFound)
        ELSE LET session == sessions[session_id]
                 request == ingest_request(transcript_hint, spans)
                 transcript == transcribe(request, session.language)
                 r == append_segments(session, diarized)
             IN  /\ Len(r.session.segments) <= MaxSegs
                 /\ sessions' = put(session_id, r.session)
                 /\ last' = Call("ingest_session_audio", session_id, arg,
                                 [status |-> "ok", triggered |-> TRUE, spans |-> spans,
                                  segments |-> serialized_segments(r.session),
                                  new_speakers |-> r.ret],
                                 << [service |-> "stt", text |-> request,
                                     language |-> session.language],
                                    [service |-> "diarization", transcript |-> transcript,
                                     returned |-> diarized] >>)
                 /\ UNCHANGED <<held, files, fed, redacted, thr, rate_limiter>>

\* the handler with the trim_to test after the store call instead of before
append_session_audio_validates_late(session_id, samples, trim_to) ==
    LET arg == [samples |-> samples, trim_to |-> trim_to]
    IN  IF samples = << >>
        THEN Reject("append_session_audio", session_id, arg, Invalid)
        ELSE IF session_id \notin DOMAIN sessions
        THEN Reject("append_session_audio", session_id, arg, NotFound)
        ELSE LET r == append_audio(sessions[session_id], samples, trim_to)
             IN  /\ Len(fed[session_id]) + Len(samples) <= MaxBuf
                 /\ sessions' = put(session_id, r.session)
                 /\ fed' = [fed EXCEPT ![session_id] = @ \o samples]
                 /\ last' = Call("append_session_audio", session_id, arg,
                                 IF trim_to # None /\ Val(trim_to) < 1
                                 THEN Invalid
                                 ELSE [status |-> "ok", added |-> Len(samples),
                                       buffered |-> Len(r.session.audio_buffer)], << >>)
                 /\ UNCHANGED <<held, files, redacted, thr, rate_limiter>>

\* POST /sessions/{session_id}/audio
append_session_audio(session_id, samples, trim_to) ==
    LET arg == [samples |-> samples, trim_to |-> trim_to]
    IN  IF trim_to # None /\ Val(trim_to) < 1
        THEN Reject("append_session_audio", session_id, arg, Invalid)
        ELSE IF samples = << >>
        THEN Reject("append_session_audio", session_id, arg, Invalid)
        ELSE IF session_id \notin DOMAIN sessions
        THEN Reject("append_session_audio", session_id, arg, NotFound)
        ELSE LET r == append_audio(sessions[session_id], samples, trim_to)
             IN  /\ Len(fed[session_id]) + Len(samples) <= MaxBuf
                 /\ sessions' = put(session_id, r.session)
                 /\ fed' = [fed EXCEPT ![session_id] = @ \o samples]
                 /\ last' = Call("append_session_audio", session_id, arg,
                                 [status |-> "ok", added |-> Len(samples),
                                  buffered |-> Len(r.session.audio_buffer)], << >>)
                 /\ UNCHANGED <<held, files, redacted, thr, rate_limiter>>

\* SessionStore.process_audio_buffer on the session found under the id: the
\* Session afterwards, the spans, the new speakers and the collaborator calls
processed(self, threshold, min_run, transcript_hint, clear_buffer, diarized) ==
    LET spans == detect_speech(self.audio_buffer, threshold, min_run)
        request == transcript_request(transcript_hint, spans)
        transcript == transcribe(request, self.language)
        plain(s) == DiarizedSegment(s.speaker, s.text)
        r == append_segments(self, MapSeq(diarized, plain))
    IN  IF spans = << >>
        THEN [session |-> self, spans |-> spans, new_speakers |-> << >>, calls |-> << >>]
        ELSE [session |-> IF clear_buffer THEN clear_audio(r.session) ELSE r.session,
              spans |-> spans,
              new_speakers |-> r.ret,
              calls |-> << [service |-> "stt", text |-> request, language |-> self.language],
                           [service |-> "diarization", transcript |-> transcript,
                            returned |-> diarized] >>]

\* POST /sessions/{session_id}/process_buffer
process_session_buffer(session_id, threshold, min_run, transcript_hint, clear_buffer, diarized) ==
    LET arg == [threshold |-> threshold, min_run |-> min_run,
                transcript_hint |-> transcript_hint, clear_buffer |-> clear_buffer]
    IN  IF min_run < 1
        THEN Reject("process_session_buffer", session_id, arg, Invalid)
        ELSE IF session_id \notin DOMAIN sessions
        THEN Reject("process_session_buffer", session_id, arg, NotFound)
        ELSE LET r == processed(sessions[session_id], threshold, min_run, transcript_hint,
                                clear_buffer, diarized)
             IN  /\ Len(r.session.segments) <= MaxSegs
                 /\ sessions' = put(session_id, r.session)
                 /\ fed' = IF clear_buffer /\ r.spans # << >>
                           THEN [fed EXCEPT ![session_id] = << >>]
                           ELSE fed
                 /\ last' = Call("process_session_buffer", session_id, arg,
                                 [status |-> "ok", triggered |-> r.spans # << >>,
                                  spans |-> r.spans,
                                  segments |-> serialized_segments(r.session),
                                  new_speakers |-> r.new_speakers,
                                  buffered |-> Len(r.session.audio_buffer)],
                                 r.calls)
                 /\ UNCHANGED <<held, files, redacted, thr, rate_limiter>>

\* str.lower() on the format values that requests carry
lower(format) ==
    CASE format = "TEXT" -> "text"
      [] OTHER -> format

\* GET /exports/{session_id}/download
download_export(session_id, format) ==
    LET arg == [format |-> format]
        exported == parsed_export(files[session_id])
        fmt == lower(IF format # "" THEN format ELSE "markdown")
    IN  IF session_id \notin DOMAIN files
        THEN Reject("download_export", session_id, arg, NotFound)
        ELSE IF fmt \notin {"markdown", "text"}
        THEN Reject("download_export", session_id, arg, Invalid)
        ELSE Reject("download_export", session_id, arg,
                    [status |-> "ok",
                     body |-> IF fmt = "markdown"
                              THEN render_markdown(exported)
                              ELSE render_text(exported)])

\* DELETE /sessions/{session_id}.  storage/persistence.py defines no
\* delete_export: the attribute lookup raises AttributeError after the
\* in-memory session is gone, and the stored file is never touched.
delete_session(session_id) ==
    LET session_present == session_id \in DOMAIN sessions
    IN  /\ sessions' = IF session_present THEN dict_pop(sessions, session_id) ELSE sessions
        /\ fed' = [fed EXCEPT ![session_id] = << >>]
        /\ redacted' = {r \in redacted : r.sid # session_id}
        /\ last' = Call("delete_session", session_id, NoArg,
                        [status |-> "AttributeError", session_removed |-> session_present],
                        << >>)
        /\ UNCHANGED <<held, files, thr, rate_limiter>>

\* POST /sessions
create_session(session_id, language, title, agenda, now) ==
    /\ sessions' = put(session_id,
                       update_metadata(Session(session_id, language, now), title, agenda).session)
    /\ fed' = [fed EXCEPT ![session_id] = << >>]
    /\ redacted' = {r \in redacted : r.sid # session_id}
    /\ last' = Call("create_session", session_id,
                    [language |-> language, title |-> title, agenda |-> agenda], Done, << >>)
    /\ UNCHANGED <<held, files, thr, rate_limiter>>

(***************************************************************************)
(* The HTTP API with valid and invalid requests, for a session that was    *)
(* created ("s1") and an id that never was ("s2").                         *)
(***************************************************************************)
MinRuns == {0, 1}
ApiSamples == {<< >>, <<0>>, <<1>>}
NextApi ==
    \/ \E id \in KnownIds, title \in {None, Some(<<"T", " ">>)} :
           create_session(id, "fa", title, None, utc(1))
    \/ \E samples \in ApiSamples, run \in MinRuns : run_vad(samples, 1, run)
    \/ \E id \in SessionIds, samples \in ApiSamples, run \in MinRuns, h \in Hints :
           ingest_session_audio(id, samples, 1, run, h, <<AudioSegment>>)
    \/ \E id \in SessionIds, samples \in ApiSamples, t \in {None, Some(0), Some(1)} :
           append_session_audio(id, samples, t)
    \/ \E id \in SessionIds, run \in MinRuns, c \in BOOLEAN, h \in Hints :
           process_session_buffer(id, 1, run, h, c, <<AudioSegment>>)
    \/ \E id \in SessionIds, f \in {"", "markdown", "TEXT", "pdf"} : download_export(id, f)
    \/ \E id \in KnownIds, title \in {None, Some(<<"T">>)} :
           save_export(SessionExport(id, utc(1), "fa",
                                     <<SegmentRecord("spk_A", "salam", Some("Ali"))>>,
                                     summarize(<<"salam">>), title, << >>))

SpecApi == Init /\ [][NextApi]_vars

\* the result of a store request and the state it leaves
stored(session_id, export_retention_days, now, disk, removed) ==
    /\ files' = disk
    /\ last' = Call("export_and_store", session_id,
                    [export_retention_days |-> export_retention_days, now |-> now],
                    [status |-> "ok", saved_path |-> session_id, pruned |-> removed],
                    <<summarizer_request(sessions[session_id])>>)
    /\ UNCHANGED <<sessions, held, fed, redacted, thr, rate_limiter>>

\* a store request that prunes before it saves
export_and_store_prunes_first(session_id, export_retention_days, now) ==
    IF session_id \notin DOMAIN sessions
    THEN Reject("export_and_store", session_id,
                [export_retention_days |-> export_retention_days, now |-> now], NotFound)
    ELSE LET exported == export(sessions[session_id])
         IN  IF export_retention_days = None
             THEN stored(session_id, export_retention_days, now,
                         dict_set(files, session_id, payload_of(exported)), << >>)
             ELSE \E paths \in glob(files) :
                      LET r == prune_loop(paths, minus_days(now, Val(export_retention_days)),
                                          files, << >>)
                      IN  stored(session_id, export_retention_days, now,
                                 dict_set(r.disk, session_id, payload_of(exported)),
                                 sorted(r.removed))

\* POST /sessions/{session_id}/export/store; now is the clock prune_exports reads
export_and_store(session_id, export_retention_days, now) ==
    IF session_id \notin DOMAIN sessions
    THEN Reject("export_and_store", session_id,
                [export_retention_days |-> export_retention_days, now |-> now], NotFound)
    ELSE LET exported == export(sessions[session_id])
             saved == dict_set(files, session_id, payload_of(exported))
         IN  IF export_retention_days = None
             THEN stored(session_id, export_retention_days, now, saved, << >>)
             ELSE \E paths \in glob(saved) :
                      LET r == prune_loop(paths, minus_days(now, Val(export_retention_days)),
                                          saved, << >>)
                      IN  stored(session_id, export_retention_days, now, r.disk,
                                 sorted(r.removed))

(***************************************************************************)
(* Requests that create sessions, store their exports and delete them.     *)
(***************************************************************************)
NextDelete ==
    \/ \E id \in SessionIds : create_session(id, "fa", None, None, utc(1))
    \/ \E id \in SessionIds : SessionStore_append(id, <<AudioSegment>>)
    \/ \E m \in {SessionExport(id, utc(1), "fa", << >>, summarize(<< >>), None, << >>) : id \in SessionIds} :
           save_export(m)
    \/ \E id \in SessionIds, days \in {None, Some(0), Some(1)}, now \in {utc(1), utc(2), utc(3)} :
           export_and_store(id, days, now)
    \/ \E id \in SessionIds : delete_session(id)
    \/ \E id \in SessionIds : SessionStore_get(id)
    \/ \E paths \in glob(files) : list_exports(paths)

SpecDelete == Init /\ [][NextDelete]_vars

(***************************************************************************)
(* Requests through the rate limiter, for every limit and both ways of     *)
(* constructing it.                                                        *)
(***************************************************************************)
InitLimit ==
    /\ sessions = EmptyDict
    /\ held = None
    /\ files = EmptyDict
    /\ last = Call("init", "", NoArg, Done, << >>)
    /\ fed = [id \in SessionIds |-> << >>]
    /\ redacted = {}
    /\ thr = NoThreads
    /\ \E limit \in {None, Some(0), Some(1), Some(2)}, now \in {"injected", "uuid1_time"} :
           rate_limiter = RateLimiter(limit, now)

NextLimit == \E advance \in (0..(Minute + 1)) : enforce_security(advance)

SpecLimit == InitLimit /\ [][NextLimit]_vars

(***************************************************************************)
(* The life of a session: created, fed audio, processed, appended to,      *)
(* labelled, redacted and exported in any order and any number of times,   *)
(* until it is deleted or the store is cleared, and created or restored    *)
(* again after that.                                                       *)
(***************************************************************************)
NextLife ==
    \/ \E id \in SpecIds : SessionStore_create(id, "fa", utc(1))
    \/ \E id \in SpecIds, t \in {None, Some(1)} : SessionStore_append_audio(id, <<1>>, t)
    \/ \E id \in SpecIds, c \in BOOLEAN, h \in Hints :
           SessionStore_process_audio_buffer(id, 1, 1, h, c, <<AudioSegment>>)
    \/ \E id \in SpecIds : SessionStore_append(id, <<(DiarizedSegment("spk_B", "dorood"))>>)
    \/ \E id \in SpecIds : SessionStore_label(id, "spk_A", "Ali")
    \/ \E id \in SpecIds, r \in Redactions : SessionStore_forget(id, "spk_A", r)
    \/ \E id \in SpecIds : SessionStore_export(id, TRUE)
    \/ \E id \in SpecIds : SessionStore_delete(id)
    \/ SessionStore_clear
    \/ held # None /\ SessionStore_restore(Val(held))

SpecLife == Init /\ [][NextLife]_vars

(***************************************************************************)
(* process_audio_buffer statement by statement, next to other calls on the *)
(* store that run between its statements.  thr holds the locals of the     *)
(* call in progress: window is the list detect_speech scanned, session     *)
(* tells whether the local `session` still names the object in the store,  *)
(* scanned whether that object is the one whose buffer was scanned.  Each  *)
(* collaborator either answers or raises.                                  *)
(***************************************************************************)
\* session = self.get(session_id); spans = detect_speech(...); if not spans: return
Scan(session_id, threshold, min_run, transcript_hint, clear_buffer) ==
    LET arg == [threshold |-> threshold, min_run |-> min_run,
                transcript_hint |-> transcript_hint, clear_buffer |-> clear_buffer]
    IN  /\ thr = NoThreads
        /\ IF session_id \notin DOMAIN sessions
           THEN KeyError("process_audio_buffer", session_id, arg)
           ELSE LET window == sessions[session_id].audio_buffer
                    spans == detect_speech(window, threshold, min_run)
                IN  IF spans = << >>
                    THEN /\ last' = Call("process_audio_buffer", session_id, arg,
                                         [status |-> "ok", spans |-> spans,
                                          new_speakers |-> << >>], << >>)
                         /\ UNCHANGED <<sessions, held, files, fed, redacted, thr, rate_limiter>>
                    ELSE /\ thr' = [pc |-> "transcribe", sid |-> session_id, arg |-> arg,
                                    session |-> "stored", scanned |-> TRUE,
                                    language |-> sessions[session_id].language,
                                    window |-> window, spans |-> spans,
                                    new_speakers |-> << >>, calls |-> << >>]
                         /\ UNCHANGED <<sessions, held, files, last, fed, redacted, rate_limiter>>

\* an exception handler that empties the buffer before it re-raises
Raise_clears(status, calls) ==
    /\ thr' = NoThreads
    /\ last' = Call("process_audio_buffer", thr.sid, thr.arg, [status |-> status], calls)
    /\ sessions' = IF thr.arg.clear_buffer /\ thr.sid \in DOMAIN sessions
                   THEN put(thr.sid, clear_audio(sessions[thr.sid]))
                   ELSE sessions
    /\ UNCHANGED <<held, files, fed, redacted, rate_limiter>>

\* an exception leaves the call: nothing in process_audio_buffer catches it
Raise(status, calls) ==
    /\ thr' = NoThreads
    /\ last' = Call("process_audio_buffer", thr.sid, thr.arg, [status |-> status], calls)
    /\ UNCHANGED <<sessions, held, files, fed, redacted, rate_limiter>>

\* transcript = stt_service.transcribe(f"...", language=session.language)
Transcribe(raises) ==
    LET request == transcript_request(thr.arg.transcript_hint, thr.spans)
        calls == <<[service |-> "stt", text |-> request, language |-> thr.language]>>
    IN  /\ thr # NoThreads
        /\ thr.pc = "transcribe"
        /\ IF raises
           THEN Raise("SttError", calls)
           ELSE /\ thr' = [thr EXCEPT !.pc = "diarize", !.calls = calls]
                /\ UNCHANGED <<sessions, held, files, last, fed, redacted, rate_limiter>>

\* diarized = diarization_service.diarize(transcript)
Diarize(raises, diarized) ==
    LET transcript == transcribe(thr.calls[1].text, thr.language)
        calls == Append(thr.calls, [service |-> "diarization", transcript |-> transcript,
                                    returned |-> IF raises THEN << >> ELSE diarized])
    IN  /\ thr # NoThreads
        /\ thr.pc = "diarize"
        /\ IF raises
           THEN Raise("DiarizationError", calls)
           ELSE /\ thr' = [thr EXCEPT !.pc = "append", !.calls = calls]
                /\ UNCHANGED <<sessions, held, files, last, fed, redacted, rate_limiter>>

\* session, new_speakers = self.append(session_id, manifest_segments): the
\* id is looked up again and `session` rebound to the object found
AppendDiarized ==
    /\ thr # NoThreads
    /\ thr.pc = "append"
    /\ IF thr.sid \notin DOMAIN sessions
       THEN Raise("NotFound", thr.calls)
       ELSE LET plain(s) == DiarizedSegment(s.speaker, s.text)
                r == append_segments(sessions[thr.sid], MapSeq(thr.calls[2].returned, plain))
            IN  /\ Len(r.session.segments) <= MaxSegs
                /\ sessions' = put(thr.sid, r.session)
                /\ thr' = [thr EXCEPT !.pc = "clear", !.new_speakers = r.ret,
                                      !.scanned = (thr.session = "stored"),
                                      !.session = "stored"]
                /\ UNCHANGED <<held, files, last, fed, redacted, rate_limiter>>

\* if clear_buffer: session.clear_audio(); return session, spans, new_speakers
ClearAndReturn ==
    /\ thr # NoThreads
    /\ thr.pc = "clear"
    /\ IF thr.arg.clear_buffer /\ thr.session = "stored"
       THEN /\ sessions' = put(thr.sid, clear_audio(sessions[thr.sid]))
            /\ fed' = [fed EXCEPT ![thr.sid] = << >>]
       ELSE UNCHANGED <<sessions, fed>>
    /\ thr' = NoThreads
    /\ last' = Call("process_audio_buffer", thr.sid, thr.arg,
                    [status |-> "ok", spans |-> thr.spans, new_speakers |-> thr.new_speakers],
                    thr.calls)
    /\ UNCHANGED <<held, files, redacted, rate_limiter>>

NextSteps ==
    \/ \E id \in SpecIds, c \in BOOLEAN, h \in {<<"h", " ">>, <<" ">>} : Scan(id, 1, 1, h, c)
    \/ \E raises \in BOOLEAN : Transcribe(raises)
    \/ \E raises \in BOOLEAN : Diarize(raises, <<AudioSegment>>)
    \/ AppendDiarized
    \/ ClearAndReturn
    \/ \E id \in SpecIds : SessionStore_create(id, "fa", utc(1))
    \/ \E id \in SpecIds, x \in {0, 1} : SessionStore_append_audio(id, <<x>>, None)
    \/ \E id \in SpecIds : SessionStore_delete(id)
    \/ \E id \in SpecIds :
           SessionStore_restore(SessionExport(id, utc(2), "en", << >>, summarize(<< >>),
                                              None, << >>))

SpecSteps == Init /\ [][NextSteps]_vars

(***************************************************************************)
(* Two request threads in calls on the same session.  The store takes no   *)
(* lock, so the threads interleave between bytecodes: one step is one read *)
(* or write of a Session attribute, or one call of a built-in list method. *)
(* A list is an object: thr.buffers and thr.timelines hold every list that *)
(* audio_buffer and segments were ever bound to, the last one being the    *)
(* current binding (mirrored in sessions), and a thread that loaded a      *)
(* binding keeps extending or iterating that list after a rebinding.       *)
(***************************************************************************)
ConcId == "s1"

ConcCalls ==
    {[op |-> "append_audio", samples |-> <<-2>>, trim_to |-> None],
     [op |-> "append_audio", samples |-> <<1>>, trim_to |-> Some(1)],
     [op |-> "append", segments |-> <<DiarizedSegment("spk_A", "salam")>>],
     [op |-> "append", segments |-> <<DiarizedSegment("spk_B", "salam")>>],
     [op |-> "forget", speaker_id |-> "spk_A", redaction_text |-> "[redacted]"]}

Idle == [ref |-> 0, overflow |-> 0, tmp |-> << >>, idx |-> 0, updated |-> << >>]

InitConc ==
    /\ \E base \in {[Session(ConcId, "fa", utc(1)) EXCEPT !.audio_buffer = b, !.segments = segs] :
                         b \in {<< >>, <<0, 1>>},
                         segs \in {<< >>, <<DiarizedSegment("spk_A", "salam")>>}},
          c1 \in ConcCalls, c2 \in ConcCalls :
           /\ sessions = [id \in {ConcId} |-> base]
           /\ thr = [base |-> base, call |-> <<c1, c2>>, pc |-> <<"start", "start">>,
                     loc |-> <<Idle, Idle>>,
                     buffers |-> <<base.audio_buffer>>,
                     timelines |-> <<base.segments>>]
    /\ rate_limiter = RateLimiter(None, "uuid1_time")
    /\ held = None
    /\ files = EmptyDict
    /\ last = Call("init", "", NoArg, Done, << >>)
    /\ fed = [id \in SessionIds |-> << >>]
    /\ redacted = {}

At(t, op, pc) == thr.call[t].op = op /\ thr.pc[t] = pc

Goto(t, pc, loc) == [thr EXCEPT !.pc[t] = pc, !.loc[t] = loc]

ConcFrame == UNCHANGED <<held, files, last, fed, redacted, rate_limiter>>

\* self.audio_buffer.extend(samples): the attribute is read ...
AudioLoad(t) ==
    /\ At(t, "append_audio", "start")
    /\ thr' = Goto(t, "extend", [thr.loc[t] EXCEPT !.ref = Len(thr.buffers)])
    /\ UNCHANGED sessions
    /\ ConcFrame

\* ... and the list it was bound to is extended
AudioExtend(t) ==
    /\ At(t, "append_audio", "extend")
    /\ LET ref == thr.loc[t].ref
           call == thr.call[t]
           extended == thr.buffers[ref] \o call.samples
           next == IF call.trim_to # None /\ Val(call.trim_to) > 0 THEN "measure" ELSE "done"
       IN  /\ thr' = [Goto(t, next, thr.loc[t]) EXCEPT !.buffers[ref] = extended]
           /\ sessions' = IF ref = Len(thr.buffers)
                          THEN [sessions EXCEPT ![ConcId].audio_buffer = extended]
                          ELSE sessions
    /\ ConcFrame

\* overflow = len(self.audio_buffer) - trim_to
AudioMeasure(t) ==
    /\ At(t, "append_audio", "measure")
    /\ LET overflow == Len(sessions[ConcId].audio_buffer) - Val(thr.call[t].trim_to)
       IN  thr' = Goto(t, IF overflow > 0 THEN "slice" ELSE "done",
                       [thr.loc[t] EXCEPT !.overflow = overflow])
    /\ UNCHANGED sessions
    /\ ConcFrame

\* self.audio_buffer[overflow:] builds a new list ...
AudioSlice(t) ==
    /\ At(t, "append_audio", "slice")
    /\ thr' = Goto(t, "store",
                   [thr.loc[t] EXCEPT
                       !.tmp = Drop(sessions[ConcId].audio_buffer, thr.loc[t].overflow)])
    /\ UNCHANGED sessions
    /\ ConcFrame

\* ... and self.audio_buffer is bound to it
AudioStore(t) ==
    /\ At(t, "append_audio", "store")
    /\ thr' = [Goto(t, "done", thr.loc[t]) EXCEPT !.buffers = Append(@, thr.loc[t].tmp)]
    /\ sessions' = [sessions EXCEPT ![ConcId].audio_buffer = thr.loc[t].tmp]
    /\ ConcFrame

\* append_segments: new_speakers is computed and self.segments is read ...
AppendLoad(t) ==
    /\ At(t, "append", "start")
    /\ thr' = Goto(t, "extend", [thr.loc[t] EXCEPT !.ref = Len(thr.timelines)])
    /\ UNCHANGED sessions
    /\ ConcFrame

\* ... and the list it was bound to is extended
AppendExtend(t) ==
    /\ At(t, "append", "extend")
    /\ LET ref == thr.loc[t].ref
           extended == thr.timelines[ref] \o thr.call[t].segments
       IN  /\ thr' = [Goto(t, "done", thr.loc[t]) EXCEPT !.timelines[ref] = extended]
           /\ sessions' = IF ref = Len(thr.timelines)
                          THEN [sessions EXCEPT ![ConcId].segments = extended]
                          ELSE sessions
    /\ ConcFrame

\* forget_speaker: self.speaker_labels.pop(speaker_id, None)
ForgetPop(t) ==
    /\ At(t, "forget", "start")
    /\ thr' = Goto(t, "iter", thr.loc[t])
    /\ sessions' = [sessions EXCEPT
                       ![ConcId].speaker_labels = dict_pop(@, thr.call[t].speaker_id)]
    /\ ConcFrame

\* for segment in self.segments: the iterator takes the list bound now
ForgetIter(t) ==
    /\ At(t, "forget", "iter")
    /\ thr' = Goto(t, "loop",
                   [thr.loc[t] EXCEPT !.ref = Len(thr.timelines), !.idx = 0, !.updated = << >>])
    /\ UNCHANGED sessions
    /\ ConcFrame

\* one round of the loop, or its end when the list has no further element
ForgetLoop(t) ==
    /\ At(t, "forget", "loop")
    /\ LET loc == thr.loc[t]
           call == thr.call[t]
           list == thr.timelines[loc.ref]
           segment == list[loc.idx + 1]
           copy == IF segment.speaker = call.speaker_id
                   THEN DiarizedSegment(segment.speaker, call.redaction_text)
                   ELSE segment
       IN  thr' = IF loc.idx < Len(list)
                  THEN Goto(t, "loop", [loc EXCEPT !.idx = loc.idx + 1,
                                                   !.updated = Append(loc.updated, copy)])
                  ELSE Goto(t, "store", loc)
    /\ UNCHANGED sessions
    /\ ConcFrame

\* self.segments = updated_segments
ForgetStore(t) ==
    /\ At(t, "forget", "store")
    /\ thr' = [Goto(t, "done", thr.loc[t]) EXCEPT !.timelines = Append(@, thr.loc[t].updated)]
    /\ sessions' = [sessions EXCEPT ![ConcId].segments = thr.loc[t].updated]
    /\ ConcFrame

NextConc ==
    \E t \in {1, 2} :
        \/ AudioLoad(t) \/ AudioExtend(t) \/ AudioMeasure(t) \/ AudioSlice(t) \/ AudioStore(t)
        \/ AppendLoad(t) \/ AppendExtend(t)
        \/ ForgetPop(t) \/ ForgetIter(t) \/ ForgetLoop(t) \/ ForgetStore(t)

SpecConc == InitConc /\ [][NextConc]_vars

\* the Session after one whole call, as the method leaves it when run alone
Alone(call, self) ==
    CASE call.op = "append_audio" -> append_audio(self, call.samples, call.trim_to).session
      [] call.op = "append" -> append_segments(self, call.segments).session
      [] call.op = "forget" ->
             forget_speaker(self, call.speaker_id, call.redaction_text).session

(***************************************************************************)
(* Claims.                                                                 *)
(***************************************************************************)
Indices(s) == 1..Len(s)
Called(op) == last.op = op /\ last.ret.status = "ok"

\* one forget call, its session before and after
C1_Step ==
    (last'.op = "forget" /\ last'.ret.status = "ok") =>
        LET sid == last'.sid
            id == last'.arg.speaker_id
            r == last'.arg.redaction_text
            before == sessions[sid]
            after == sessions'[sid]
        IN  /\ \A i \in Indices(after.segments) :
                   after.segments[i].speaker = id => after.segments[i].text = r
            /\ id \notin DOMAIN after.speaker_labels
            /\ last'.ret.scrubbed =
                   Cardinality({i \in Indices(before.segments) : before.segments[i].speaker = id})

\* C1: after forget_speaker(id, r) every segment of speaker id has text r,
\* speaker_labels has no entry for id, and the count returned is the number
\* of segments that had speaker id just before the call (0 included).
C1_ForgetRedacts == [][C1_Step]_vars

\* a speaker with a segment was forgotten next to another speaker's segment
C1_Witness ==
    /\ Called("forget")
    /\ last.ret.scrubbed >= 1
    /\ LET segs == sessions[last.sid].segments
       IN  /\ \E i \in Indices(segs) : segs[i].speaker = last.arg.speaker_id
           /\ \E i \in Indices(segs) :
                  segs[i].speaker # last.arg.speaker_id /\ segs[i].text \in Texts

\* the runs of loud samples in an input of detect_speech
Active(samples, threshold, i) == Abs(samples[i + 1]) >= threshold

MaximalRuns(samples, threshold) ==
    {run \in (0..(Len(samples) - 1)) \X (0..(Len(samples) - 1)) :
        /\ run[1] <= run[2]
        /\ \A i \in run[1]..run[2] : Active(samples, threshold, i)
        /\ run[1] = 0 \/ ~Active(samples, threshold, run[1] - 1)
        /\ run[2] = Len(samples) - 1 \/ ~Active(samples, threshold, run[2] + 1)}

\* C5: for min_run >= 1 every span of detect_speech is at least min_run long,
\* the spans do not overlap and their start_index strictly increases, and
\* every maximal run of at least min_run samples with abs(x) >= threshold is
\* covered by a span, a run that ends at the last sample included.
C5_VadSpans ==
    Called("detect_speech") =>
        LET samples == last.arg.samples
            spans == last.ret.spans
        IN  /\ \A k \in Indices(spans) :
                   spans[k].end_index - spans[k].start_index + 1 >= last.arg.min_run
            /\ \A k \in Indices(spans) :
                   k > 1 => /\ spans[k - 1].start_index < spans[k].start_index
                            /\ spans[k - 1].end_index < spans[k].start_index
            /\ \A run \in MaximalRuns(samples, last.arg.threshold) :
                   run[2] - run[1] + 1 >= last.arg.min_run =>
                       \E k \in Indices(spans) :
                           spans[k].start_index <= run[1] /\ run[2] <= spans[k].end_index

\* two spans of two samples each, the second one ending at the last sample,
\* one of them loud only by its absolute value
C5_Witness ==
    /\ Called("detect_speech")
    /\ last.arg.min_run = 2
    /\ Len(last.ret.spans) = 2
    /\ last.ret.spans[2].end_index = Len(last.arg.samples) - 1
    /\ \E i \in Indices(last.arg.samples) : last.arg.samples[i] < 0

\* one append_audio call, the buffer before and after
C6_Step ==
    (last'.op = "append_audio" /\ last'.ret.status = "ok") =>
        LET all == sessions[last'.sid].audio_buffer \o last'.arg.samples
            after == sessions'[last'.sid].audio_buffer
            trim_to == last'.arg.trim_to
        IN  /\ trim_to = None =>
                   /\ after = all
                   /\ Len(after) = Len(sessions[last'.sid].audio_buffer) + Len(last'.arg.samples)
            /\ (trim_to # None /\ Val(trim_to) >= 1) =>
                   /\ Len(after) = Min(Val(trim_to), Len(all))
                   /\ \A i \in Indices(after) : after[i] = all[Len(all) - Len(after) + i]

\* C6: append_audio(samples) without trim_to turns the buffer b into
\* b ++ samples; with trim_to = n >= 1 the buffer becomes the last
\* min(n, len(b) + len(samples)) elements of b ++ samples, in order.
C6_AppendAudio == [][C6_Step]_vars

\* two samples were appended with trim_to = 2 to a buffer that held one: the
\* oldest sample went and the two new ones stayed
C6_Witness ==
    /\ Called("append_audio")
    /\ last.arg.trim_to = Some(2)
    /\ Len(last.arg.samples) = 2
    /\ Len(fed[last.sid]) = 3
    /\ sessions[last.sid].audio_buffer = last.arg.samples
    /\ fed[last.sid][1] # fed[last.sid][2]

\* the calls that may shorten a buffer
Clears(call) ==
    /\ call.op = "process_audio_buffer"
    /\ call.ret.status = "ok"
    /\ call.arg.clear_buffer
    /\ call.ret.spans # << >>

Trims(call) ==
    call.op = "append_audio" /\ call.ret.status = "ok" /\ call.arg.trim_to # None

C7_Step ==
    \A sid \in DOMAIN sessions' :
        /\ IsSuffix(sessions'[sid].audio_buffer, fed'[sid])
        /\ (sid \in DOMAIN sessions /\ ~(last'.op \in {"create", "restore"} /\ last'.sid = sid)) =>
               LET b == sessions[sid].audio_buffer
                   after == sessions'[sid].audio_buffer
               IN  /\ Len(after) < Len(b) => (Trims(last') \/ Clears(last'))
                   /\ last'.op \in {"append", "label", "forget", "update_metadata",
                                    "export", "summary", "audio_samples"} => after = b
                   /\ (last'.op = "process_audio_buffer" /\ ~Clears(last')) => after = b

\* C7: the buffer of a session is always a contiguous suffix of the samples
\* appended since the session was constructed or its buffer cleared; it gets
\* shorter only in append_audio with trim_to or in a process_audio_buffer
\* with clear_buffer that found spans; append, label, forget, update_metadata,
\* export, summary, audio_samples and process_audio_buffer without clear
\* leave it as it is.
C7_BufferSuffix == [][C7_Step]_vars

\* a trimmed buffer (shorter than what was fed) survived a forget that scrubbed a segment
C7_Witness ==
    /\ Called("forget")
    /\ last.ret.scrubbed >= 1
    /\ Len(sessions[last.sid].audio_buffer) >= 1
    /\ Len(sessions[last.sid].audio_buffer) < Len(fed[last.sid])

\* an input in which detect_speech has a span to find
HasRun(samples, threshold, min_run) ==
    \E run \in MaximalRuns(samples, threshold) : run[2] - run[1] + 1 >= min_run

C8_Step ==
    (/\ last'.op = "process_audio_buffer"
     /\ last'.ret.status = "ok"
     /\ ~HasRun(sessions[last'.sid].audio_buffer, last'.arg.threshold, last'.arg.min_run)) =>
        /\ last'.ret.spans = << >>
        /\ last'.ret.new_speakers = << >>
        /\ last'.calls = << >>
        /\ sessions' = sessions

\* C8: when VAD finds no span in the whole buffer, process_audio_buffer
\* returns no spans and no new speakers, calls neither collaborator and
\* leaves the session (segments, labels, buffer) as it was, with
\* clear_buffer = true as well.
C8_SilenceIsNoop == [][C8_Step]_vars

\* a clearing call on a buffer with one loud sample, too short a run for min_run = 2
C8_Witness ==
    /\ Called("process_audio_buffer")
    /\ last.arg.clear_buffer
    /\ last.arg.min_run = 2
    /\ last.ret.spans = << >>
    /\ \E i \in Indices(sessions[last.sid].audio_buffer) :
           Abs(sessions[last.sid].audio_buffer[i]) >= last.arg.threshold

\* one process_audio_buffer call that found a span
C9_Step ==
    (/\ last'.op = "process_audio_buffer"
     /\ last'.ret.status = "ok"
     /\ HasRun(sessions[last'.sid].audio_buffer, last'.arg.threshold, last'.arg.min_run)) =>
        /\ Len(last'.calls) = 2
        /\ sessions'[last'.sid].audio_buffer =
               IF last'.arg.clear_buffer THEN << >> ELSE sessions[last'.sid].audio_buffer
        /\ sessions'[last'.sid].segments =
               sessions[last'.sid].segments \o last'.calls[2].returned

\* C9: when VAD finds a span, process_audio_buffer leaves the buffer as it
\* was with clear_buffer = false and empty with clear_buffer = true, and in
\* both cases the diarized segments are appended to the timeline.
C9_ScanKeepsAudio == [][C9_Step]_vars

\* a call without clear_buffer found a span, appended a segment and kept the samples
C9_Witness ==
    /\ Called("process_audio_buffer")
    /\ ~last.arg.clear_buffer
    /\ last.ret.spans # << >>
    /\ sessions[last.sid].audio_buffer # << >>
    /\ sessions[last.sid].segments # << >>

\* C2: redaction is irreversible: once forget_speaker(id, r) has scrubbed a
\* segment of the session stored under a session_id, no later store
\* operation on that id (restore of a manifest exported before the forget
\* included) brings the text it replaced back to that segment.
C2_Irreversible ==
    \A r \in redacted :
        r.sid \in DOMAIN sessions =>
            LET segs == sessions[r.sid].segments
            IN  ~(/\ r.index <= Len(segs)
                  /\ segs[r.index].speaker = r.speaker
                  /\ segs[r.index].text = r.text)

\* one restore of the manifest just exported from the stored session
C3_Step ==
    (/\ last'.op = "restore"
     /\ last'.sid \in DOMAIN sessions
     /\ last'.arg.export = export(sessions[last'.sid])) =>
        LET s == sessions[last'.sid]
            restored == sessions'[last'.sid]
        IN  /\ restored.segments = s.segments
            /\ restored.speaker_labels = s.speaker_labels
            /\ restored.title = s.title
            /\ restored.agenda = s.agenda
            /\ restored.language = s.language
            /\ restored.created_at = s.created_at
            /\ restored.audio_buffer = << >>

\* C3: restore(export(s)) yields a session with the segments, speaker_labels,
\* title, agenda, language and created_at of s and an empty audio buffer.
C3_RoundTrip == [][C3_Step]_vars

\* C4: load(m.session_id) after save(m) returns a manifest equal to m in
\* session_id, created_at, language, title, agenda, segments and summary
\* (highlight, bullet_points).
C4_PersistRoundTrip ==
    Called("save_export") =>
        LET m == last.arg.export
            loaded == parsed_export(files[m.session_id])
        IN  /\ loaded.session_id = m.session_id
            /\ loaded.created_at = m.created_at
            /\ loaded.language = m.language
            /\ loaded.title = m.title
            /\ loaded.agenda = m.agenda
            /\ loaded.segments = m.segments
            /\ loaded.summary.highlight = m.summary.highlight
            /\ loaded.summary.bullet_points = m.summary.bullet_points

\* C10: two mutating calls invoked concurrently on one session leave the
\* session in the state that running them one after the other, in one of the
\* two orders, would leave it in: no appended sample or segment is lost.
C10_Serializable ==
    (thr # NoThreads /\ thr.pc = <<"done", "done">>) =>
        sessions[ConcId] \in {Alone(thr.call[2], Alone(thr.call[1], thr.base)),
                              Alone(thr.call[1], Alone(thr.call[2], thr.base))}

\* C11: in every reachable state every key of a session's speaker_labels is
\* the speaker id of at least one segment of that session.
C11_LabelsOfSegments ==
    \A sid \in DOMAIN sessions :
        \A id \in DOMAIN sessions[sid].speaker_labels :
            \E i \in Indices(sessions[sid].segments) : sessions[sid].segments[i].speaker = id

\* the segments a call handed to the timeline: those of append, or those the
\* diarizer returned to a process_audio_buffer that found spans
Appended(call) ==
    IF call.op = "append" /\ call.ret.status = "ok"
    THEN call.arg.segments
    ELSE IF call.op = "process_audio_buffer" /\ call.ret.status = "ok" /\ call.calls # << >>
         THEN call.calls[2].returned
         ELSE << >>

\* one call on a session that stays the same Session object (create and
\* restore put a new object under the id)
C12_Step ==
    \A sid \in DOMAIN sessions \cap DOMAIN sessions' :
        ~(last'.op \in {"create", "restore"} /\ last'.sid = sid) =>
            LET b == sessions[sid].segments
                after == sessions'[sid].segments
            IN  /\ Len(after) >= Len(b)
                /\ \A i \in Indices(b) : after[i].speaker = b[i].speaker
                /\ SubSeq(after, Len(b) + 1, Len(after)) =
                       (IF last'.sid = sid THEN Appended(last') ELSE << >>)
                /\ \A i \in Indices(b) :
                       after[i].text # b[i].text =>
                           /\ last'.op = "forget"
                           /\ last'.sid = sid
                           /\ b[i].speaker = last'.arg.speaker_id

\* C12: the timeline of a session is append-only: the number of segments
\* never decreases, the speaker at an existing position never changes, new
\* segments come at the end in the order given, and the text at an existing
\* position changes only through forget_speaker of that position's speaker.
C12_AppendOnly == [][C12_Step]_vars

\* a segment was appended behind a redacted segment of the same speaker
C12_Witness ==
    /\ Called("append")
    /\ LET segs == sessions[last.sid].segments
       IN  /\ Len(segs) = 2
           /\ segs[1].text \in Redactions
           /\ segs[2].text \in Texts
           /\ segs[1].speaker = segs[2].speaker
           /\ <<segs[2]>> = last.arg.segments

\* one append on an existing session: what it adds and what it reports
C13_Step ==
    (last'.op = "append" /\ last'.ret.status = "ok") =>
        LET before == sessions[last'.sid]
            new == last'.arg.segments
            reported == last'.ret.new_speakers
            fresh == {i \in Indices(new) : new[i].speaker \notin DOMAIN before.speaker_labels}
            nth(k) == CHOOSE i \in fresh : Cardinality({j \in fresh : j < i}) = k - 1
        IN  /\ sessions'[last'.sid].segments = before.segments \o new
            /\ Len(reported) = Cardinality(fresh)
            /\ \A k \in Indices(reported) : reported[k] = new[nth(k)].speaker
            /\ \A k \in Indices(reported) : reported[k] \notin DOMAIN before.speaker_labels

\* C13: append_segments(new) appends all of new to the end of segments in
\* order and returns the speaker ids of exactly those segments of new whose
\* speaker has no entry in speaker_labels at call time; a labelled speaker is
\* never reported as new.
C13_NewSpeakers == [][C13_Step]_vars

\* two segments were appended, the first of a labelled speaker and the second
\* of an unlabelled one, and only the second speaker was reported
C13_Witness ==
    /\ Called("append")
    /\ Len(last.arg.segments) = 2
    /\ last.arg.segments[1].speaker \in DOMAIN sessions[last.sid].speaker_labels
    /\ last.ret.new_speakers = <<last.arg.segments[2].speaker>>
    /\ last.arg.segments[2].speaker # last.arg.segments[1].speaker

\* the label a view of the session must show for a segment, given the labels
\* before a label call and the call's speaker and name
LabelShown(labels, id, name, speaker) ==
    IF speaker = id THEN Some(name)
    ELSE IF speaker \in DOMAIN labels THEN Some(labels[speaker]) ELSE None

\* one label call on an existing session
C14_Step ==
    (last'.op = "label" /\ last'.ret.status = "ok") =>
        LET before == sessions[last'.sid]
            after == sessions'[last'.sid]
            id == last'.arg.speaker_id
            name == last'.arg.display_name
            serialized == serialized_segments(after)
            exported == export(after).segments
        IN  /\ DOMAIN after.speaker_labels = DOMAIN before.speaker_labels \cup {id}
            /\ after.speaker_labels[id] = name
            /\ \A other \in DOMAIN before.speaker_labels \ {id} :
                   after.speaker_labels[other] = before.speaker_labels[other]
            /\ after.segments = before.segments
            /\ after.title = before.title
            /\ after.agenda = before.agenda
            /\ after.language = before.language
            /\ after.created_at = before.created_at
            /\ after.audio_buffer = before.audio_buffer
            /\ Len(serialized) = Len(before.segments)
            /\ Len(exported) = Len(before.segments)
            /\ \A i \in Indices(before.segments) :
                   LET shown == LabelShown(before.speaker_labels, id, name,
                                           before.segments[i].speaker)
                   IN  /\ serialized[i].speaker_label = shown
                       /\ exported[i].speaker_label = shown
                       /\ serialized[i].text = before.segments[i].text
                       /\ exported[i].text = before.segments[i].text

\* C14: label(id, name) sets speaker_labels[id] = name, replacing an earlier
\* name, and changes nothing else (segments, other labels, metadata, audio
\* buffer); afterwards serialized_segments and export show name for every
\* segment of speaker id and the unchanged label, or none, for the others.
C14_LabelFrame == [][C14_Step]_vars

\* spk_A was labelled in a session that holds a segment of spk_A and one of
\* spk_B, spk_B is labelled too, and title and buffer are set
C14_Witness ==
    /\ Called("label")
    /\ last.arg.speaker_id = "spk_A"
    /\ LET s == sessions[last.sid]
       IN  /\ DOMAIN s.speaker_labels = {"spk_A", "spk_B"}
           /\ \E i \in Indices(s.segments) : s.segments[i].speaker = "spk_A"
           /\ \E i \in Indices(s.segments) : s.segments[i].speaker = "spk_B"
           /\ s.title # None
           /\ s.audio_buffer # << >>

\* one forget call on an existing session: what it must leave alone
C15_Step ==
    (last'.op = "forget" /\ last'.ret.status = "ok") =>
        LET before == sessions[last'.sid]
            after == sessions'[last'.sid]
            id == last'.arg.speaker_id
        IN  /\ Len(after.segments) = Len(before.segments)
            /\ \A i \in Indices(before.segments) :
                   /\ after.segments[i].speaker = before.segments[i].speaker
                   /\ before.segments[i].speaker # id =>
                          after.segments[i].text = before.segments[i].text
            /\ DOMAIN after.speaker_labels = DOMAIN before.speaker_labels \ {id}
            /\ \A other \in DOMAIN after.speaker_labels :
                   after.speaker_labels[other] = before.speaker_labels[other]
            /\ after.title = before.title
            /\ after.agenda = before.agenda
            /\ after.language = before.language
            /\ after.created_at = before.created_at
            /\ after.audio_buffer = before.audio_buffer

\* C15: forget_speaker(id, r) keeps the number and order of segments and the
\* speaker id of every segment, the text of every segment of another speaker,
\* the labels of all other speakers, and title, agenda, language, created_at
\* and the audio buffer.
C15_ForgetFrame == [][C15_Step]_vars

\* spk_A was forgotten in a session that holds a redacted segment of spk_A
\* before an untouched, labelled segment of spk_B, a title and buffered audio
C15_Witness ==
    /\ Called("forget")
    /\ last.arg.speaker_id = "spk_A"
    /\ LET s == sessions[last.sid]
       IN  /\ Len(s.segments) = 2
           /\ s.segments[1].speaker = "spk_A"
           /\ s.segments[1].text = last.arg.redaction_text
           /\ s.segments[2].speaker = "spk_B"
           /\ s.segments[2].text \in Texts
           /\ DOMAIN s.speaker_labels = {"spk_B"}
           /\ s.title # None
           /\ s.audio_buffer # << >>

\* the session-scoped operations of the store
SessionOps ==
    {"get", "append", "label", "forget", "append_audio", "audio_samples",
     "update_metadata", "delete", "summary", "export", "process_audio_buffer"}

\* one call of a session-scoped operation with an id the registry does not hold
C16_Step ==
    (last'.op \in SessionOps /\ last'.sid \notin DOMAIN sessions) =>
        /\ last'.ret = NotFound
        /\ last'.calls = << >>
        /\ sessions' = sessions
        /\ files' = files

\* C16: every session-scoped store operation invoked with a session_id that
\* is not in the registry fails with NotFound, creates no session, calls no
\* collaborator and leaves the registry and every existing session unchanged.
C16_UnknownSession == [][C16_Step]_vars

\* process_audio_buffer failed on the unknown id while the other session
\* holds a segment and buffered speech
C16_Witness ==
    /\ last.op = "process_audio_buffer"
    /\ last.ret = NotFound
    /\ last.sid \notin DOMAIN sessions
    /\ \E sid \in DOMAIN sessions :
           /\ sessions[sid].audio_buffer # << >>
           /\ sessions[sid].segments # << >>

\* a format that names neither rendering (an absent format means markdown,
\* and letter case does not count)
UnknownFormat(format) == lower(IF format # "" THEN format ELSE "markdown") \notin {"markdown", "text"}

\* the requests with an invalid argument, but for the download
InvalidRequest(call) ==
    \/ /\ call.op \in {"run_vad", "ingest_session_audio", "process_session_buffer"}
       /\ call.arg.min_run < 1
    \/ /\ call.op = "append_session_audio"
       /\ \/ call.arg.trim_to # None /\ Val(call.arg.trim_to) < 1
          \/ call.arg.samples = << >>

Rejected == last'.ret = Invalid /\ sessions' = sessions /\ files' = files

\* C17: /vad, /sessions/{id}/ingest and /sessions/{id}/process_buffer with
\* min_run < 1, /sessions/{id}/audio with trim_to < 1 or without samples, and
\* /exports/{id}/download with a format other than markdown or text each
\* return InvalidArgument, and the registry, the sessions and the stored
\* exports are as before the request.
C17_RejectsInvalid ==
    [][(\/ InvalidRequest(last')
        \/ last'.op = "download_export" /\ UnknownFormat(last'.arg.format)) => Rejected]_vars

\* C17 as amended: the download answers InvalidArgument for an unknown format
\* when the id has a stored export, and NotFound, whatever the format, when it
\* has none; every other request of C17 is rejected as stated, and in all
\* these cases nothing changes.
C17_RejectsInvalidStored ==
    [][/\ InvalidRequest(last') => Rejected
       /\ (last'.op = "download_export" /\ UnknownFormat(last'.arg.format)) =>
              /\ last'.ret = (IF last'.sid \in DOMAIN files THEN Invalid ELSE NotFound)
              /\ sessions' = sessions
              /\ files' = files
       /\ (last'.op = "download_export" /\ last'.sid \notin DOMAIN files) =>
              last'.ret = NotFound]_vars

\* an append of a sample with trim_to = 0 was rejected while the session
\* holds buffered audio and a segment and an export is stored
C17_Witness ==
    /\ last.op = "append_session_audio"
    /\ last.ret = Invalid
    /\ last.arg.trim_to = Some(0)
    /\ last.arg.samples # << >>
    /\ last.sid \in DOMAIN sessions
    /\ sessions[last.sid].audio_buffer # << >>
    /\ sessions[last.sid].segments # << >>
    /\ files # EmptyDict

\* A create call answered
C18_Step ==
    last'.op = "create"

\* C18: create(id, language) never fails; afterwards the registry holds under
\* id one session with the given language, no title and empty agenda,
\* segments, speaker_labels and audio_buffer, whatever session was registered
\* under id before, and the registry has no other new or lost id.
C18_CreateOverwrites ==
    [][C18_Step =>
        LET id == last'.sid
        IN  /\ last'.ret = Done
            /\ DOMAIN sessions' = DOMAIN sessions \cup {id}
            /\ sessions'[id].session_id = id
            /\ sessions'[id].language = last'.arg.language
            /\ sessions'[id].title = None
            /\ sessions'[id].agenda = << >>
            /\ sessions'[id].segments = << >>
            /\ sessions'[id].speaker_labels = EmptyDict
            /\ sessions'[id].audio_buffer = << >>
            /\ \A other \in DOMAIN sessions \ {id} : sessions'[other] = sessions[other]]_vars

\* create has replaced a session that had segments, a label and buffered audio
C18_Witness ==
    /\ last.op = "create"
    /\ last.ret = Done
    /\ last.arg.replaced # None
    /\ Val(last.arg.replaced).segments # << >>
    /\ Val(last.arg.replaced).speaker_labels # EmptyDict
    /\ Val(last.arg.replaced).audio_buffer # << >>
    /\ Val(last.arg.replaced).language # last.arg.language
    /\ sessions[last.sid].segments = << >>
    /\ sessions[last.sid].speaker_labels = EmptyDict
    /\ sessions[last.sid].audio_buffer = << >>

\* A restore call answered
C19_Step ==
    last'.op = "restore"

\* the label a manifest gives a speaker: the last non-empty speaker_label
\* among the speaker's segments
ManifestLabelled(segments, speaker) ==
    {i \in Indices(segments) :
        /\ segments[i].speaker = speaker
        /\ segments[i].speaker_label # None
        /\ Val(segments[i].speaker_label) # ""}

\* C19: restore(manifest) never answers NotFound; whether or not a session is
\* registered under manifest.session_id, afterwards the session under that id
\* has the manifest's language, created_at, title and agenda, the manifest's
\* segments (speaker and text, in order), the labels the manifest's segments
\* carry and an empty audio buffer, so nothing of the session registered
\* before is left, and every other session of the registry is unchanged.
C19_RestoreReplaces ==
    [][C19_Step =>
        LET manifest == last'.arg.export
            id == manifest.session_id
            after == sessions'[id]
        IN  /\ last'.ret = Done
            /\ DOMAIN sessions' = DOMAIN sessions \cup {id}
            /\ after.session_id = id
            /\ after.language = manifest.language
            /\ after.created_at = manifest.created_at
            /\ after.title = manifest.title
            /\ after.agenda = manifest.agenda
            /\ Len(after.segments) = Len(manifest.segments)
            /\ \A i \in Indices(manifest.segments) :
                   /\ after.segments[i].speaker = manifest.segments[i].speaker
                   /\ after.segments[i].text = manifest.segments[i].text
            /\ \A speaker \in Speakers :
                   LET labelled == ManifestLabelled(manifest.segments, speaker)
                   IN  IF labelled = {}
                       THEN speaker \notin DOMAIN after.speaker_labels
                       ELSE /\ speaker \in DOMAIN after.speaker_labels
                            /\ \E i \in labelled :
                                   /\ \A j \in labelled : j <= i
                                   /\ after.speaker_labels[speaker] =
                                          Val(manifest.segments[i].speaker_label)
            /\ DOMAIN after.speaker_labels \subseteq Speakers
            /\ after.audio_buffer = << >>
            /\ \A other \in DOMAIN sessions \ {id} : sessions'[other] = sessions[other]]_vars

\* restore has replaced a session that had its own segments, label, language
\* and buffered audio, next to another session that has segments and audio
C19_Witness ==
    /\ last.op = "restore"
    /\ last.ret = Done
    /\ last.arg.replaced # None
    /\ Val(last.arg.replaced).segments # << >>
    /\ "spk_A" \in DOMAIN Val(last.arg.replaced).speaker_labels
    /\ Val(last.arg.replaced).audio_buffer # << >>
    /\ Val(last.arg.replaced).language # last.arg.export.language
    /\ last.arg.export.segments # << >>
    /\ sessions[last.sid].audio_buffer = << >>
    /\ DOMAIN sessions[last.sid].speaker_labels = {"spk_B"}
    /\ \E other \in DOMAIN sessions \ {last.sid} :
           /\ sessions[other].segments # << >>
           /\ sessions[other].audio_buffer # << >>

\* A prune call answered
C20_Step ==
    last'.op = "prune_exports"

\* the stored manifests a prune call finds older than its cutoff: those whose
\* loaded created_at lies on a day before now - max_age_days
OlderThanCutoff(disk, call) ==
    {id \in DOMAIN disk :
        /\ reads_created_at(disk[id])
        /\ parsed_export(disk[id]).created_at.day < call.arg.now.day - call.arg.max_age_days}

Ascending(ids) ==
    \A i, j \in Indices(ids) : i < j => rank(ids[i]) < rank(ids[j])

\* C20: prune(max_age_days, now) deletes exactly the stored manifests whose
\* created_at is strictly earlier than now - max_age_days and returns exactly
\* their ids, each once, in ascending order; every manifest created at or
\* after the cutoff is stored afterwards as it was, so it loads as before.
C20_PruneOlder ==
    [][C20_Step =>
        LET old == OlderThanCutoff(files, last')
            removed == last'.ret.removed
        IN  /\ last'.ret.status = "ok"
            /\ DOMAIN files' = DOMAIN files \ old
            /\ {removed[i] : i \in Indices(removed)} = old
            /\ Len(removed) = Cardinality(old)
            /\ Ascending(removed)
            /\ \A id \in DOMAIN files \ old :
                   /\ files'[id] = files[id]
                   /\ reads_created_at(files[id]) =>
                          parsed_export(files'[id]) = parsed_export(files[id])]_vars

\* prune has removed two manifests, one of them with a naive created_at, and
\* kept one created exactly at the cutoff, whose id sorts between the two
C20_Witness ==
    /\ last.op = "prune_exports"
    /\ last.ret.removed = <<"s1", "s3">>
    /\ last.arg.max_age_days = 1
    /\ DOMAIN files = {"s2"}
    /\ parsed_export(files["s2"]).created_at = minus_days(last.arg.now, last.arg.max_age_days)

\* A prune call made directly after a prune call with the same max_age_days
\* and the same now
C21_Step ==
    /\ last'.op = "prune_exports"
    /\ last'.arg.previous # None
    /\ Val(last'.arg.previous).max_age_days = last'.arg.max_age_days
    /\ Val(last'.arg.previous).now = last'.arg.now

\* C21: a prune run directly after a prune with the same max_age_days and the
\* same now, nothing written in between, removes no file and returns the
\* empty list: the stored files after it are those after the first run.
C21_PruneIdempotent ==
    [][C21_Step => /\ last'.ret.removed = << >>
                   /\ files' = files]_vars

\* the second of two equal prune calls has run after the first removed two
\* manifests and left one
C21_Witness ==
    /\ last.op = "prune_exports"
    /\ last.arg.previous # None
    /\ Val(last.arg.previous).max_age_days = last.arg.max_age_days
    /\ Val(last.arg.previous).now = last.arg.now
    /\ Len(Val(last.arg.previous).removed) = 2
    /\ last.ret.removed = << >>
    /\ \E id \in DOMAIN files : reads_created_at(files[id])

\* the files a prune call cannot read
Unreadable(disk) == {id \in DOMAIN disk : ~reads_created_at(disk[id])}

\* C22: a stored file that does not parse (not JSON, created_at missing or
\* not a date) never aborts prune and is never deleted by it: prune returns
\* normally, the file is on disk unchanged and in the result of list
\* afterwards and is not reported, and every well-formed manifest older
\* than the cutoff is removed and reported in the same sweep.
C22_PruneSkipsMalformed ==
    [][(C20_Step /\ Unreadable(files) # {}) =>
        /\ last'.ret.status = "ok"
        /\ \A id \in Unreadable(files) :
               /\ id \in DOMAIN files'
               /\ files'[id] = files[id]
               /\ \A i \in Indices(last'.ret.removed) : last'.ret.removed[i] # id
        /\ \A listing \in {sorted(paths) : paths \in glob(files')} :
               Unreadable(files) \subseteq {listing[i] : i \in Indices(listing)}
        /\ \A id \in OlderThanCutoff(files, last') :
               /\ id \notin DOMAIN files'
               /\ \E i \in Indices(last'.ret.removed) : last'.ret.removed[i] = id]_vars

\* prune has removed a manifest while a file that is not JSON, met before it
\* or after it, and a document without created_at stayed
C22_Witness ==
    /\ last.op = "prune_exports"
    /\ last.ret.removed = <<"s2">>
    /\ DOMAIN files = {"s1", "s3"}
    /\ files["s1"] = NotJson
    /\ "created_at" \notin DOMAIN files["s3"]
    /\ json_loads(files["s3"])

\* A save of a manifest whose session_id already has a stored file
C23_Step ==
    /\ last'.op = "save_export"
    /\ last'.sid \in DOMAIN files

\* C23: save(m) for a session_id that already has a stored export replaces
\* it: afterwards list holds that id exactly once, load(id) returns the
\* manifest just saved, and the stored exports of all other ids are unchanged.
C23_SaveReplaces ==
    [][C23_Step =>
        LET id == last'.sid
        IN  /\ \A listing \in {sorted(paths) : paths \in glob(files')} :
                   Cardinality({i \in Indices(listing) : listing[i] = id}) = 1
            /\ reads_created_at(files'[id])
            /\ parsed_export(files'[id]) = last'.arg.export
            /\ \A other \in DOMAIN files \ {id} :
                   other \in DOMAIN files' /\ files'[other] = files[other]]_vars

\* C24: whatever was saved, written or pruned before, list returns
\* exactly the ids that have a stored file, each once, in ascending order;
\* it returns the empty list when there is none.
C24_ListSorted ==
    Called("list_exports") =>
        LET exports == last.ret.exports
        IN  /\ {exports[i] : i \in Indices(exports)} = DOMAIN files
            /\ Len(exports) = Cardinality(DOMAIN files)
            /\ Ascending(exports)
            /\ (files = EmptyDict => exports = << >>)

\* list has returned two ids, the middle one being gone
C24_Witness ==
    /\ Called("list_exports")
    /\ last.ret.exports = <<"s1", "s3">>

\* A DELETE /sessions/{id} request answered
C25_Step ==
    last'.op = "delete_session"

\* C25: DELETE /sessions/{id} succeeds, and afterwards neither the in-memory
\* session nor the stored export of id exists, while the sessions and the
\* stored exports of other ids are unchanged.
C25_DeleteRemovesBoth ==
    [][C25_Step =>
        LET id == last'.sid
        IN  /\ last'.ret.status = "ok"
            /\ id \notin DOMAIN sessions'
            /\ id \notin DOMAIN files'
            /\ \A other \in DOMAIN sessions \ {id} :
                   other \in DOMAIN sessions' /\ sessions'[other] = sessions[other]
            /\ \A other \in DOMAIN files \ {id} :
                   other \in DOMAIN files' /\ files'[other] = files[other]]_vars

\* C26: summary, export, serialized_segments and metadata_view leave every
\* field of the session unchanged; the manifest export returns shows the
\* session as it is when export is called, whatever manifest was handed out
\* before; and a manifest a caller holds is not changed by a later append,
\* label, forget or update_metadata.
C26_ViewsDoNotMutate ==
    [][/\ last'.op \in {"summary", "export", "views"} => sessions' = sessions
       /\ (last'.op = "export" /\ last'.ret.status = "ok") =>
              LET self == sessions[last'.sid]
                  manifest == last'.ret.manifest
              IN  /\ manifest.session_id = self.session_id
                  /\ manifest.created_at = self.created_at
                  /\ manifest.language = self.language
                  /\ manifest.title = self.title
                  /\ manifest.agenda = self.agenda
                  /\ Len(manifest.segments) = Len(self.segments)
                  /\ \A i \in Indices(self.segments) :
                         /\ manifest.segments[i].speaker = self.segments[i].speaker
                         /\ manifest.segments[i].text = self.segments[i].text
                         /\ manifest.segments[i].speaker_label =
                                IF self.segments[i].speaker \in DOMAIN self.speaker_labels
                                THEN Some(self.speaker_labels[self.segments[i].speaker])
                                ELSE None
                  /\ Len(last'.calls) = 1
                  /\ Len(last'.calls[1].transcript) = Len(self.segments)
                  /\ \A i \in Indices(self.segments) :
                         last'.calls[1].transcript[i] = self.segments[i].text
                  /\ manifest.summary = summarize(last'.calls[1].transcript)
       /\ last'.op \in {"append", "label", "forget", "update_metadata"} => held' = held
      ]_vars

\* export has returned a manifest that differs in segments, label and title
\* from the manifest a caller still holds from an earlier export
C26_Witness ==
    /\ Called("export")
    /\ held # None
    /\ Len(last.ret.manifest.segments) > Len(Val(held).segments)
    /\ Val(held).segments # << >>
    /\ last.ret.manifest.segments[1].speaker_label # Val(held).segments[1].speaker_label
    /\ last.ret.manifest.title # Val(held).title

\* An update_metadata call on a session that exists
C27_Step ==
    last'.op = "update_metadata" /\ last'.ret.status = "ok"

Blank(text) == \A i \in Indices(text) : text[i] \in Whitespace

\* core is text without its surrounding whitespace
Stripped(text, core) ==
    \E i \in 1..(Len(text) + 1), j \in 0..Len(text) :
        /\ core = SubSeq(text, i, j)
        /\ \A k \in 1..(i - 1) : text[k] \in Whitespace
        /\ \A k \in (j + 1)..Len(text) : text[k] \in Whitespace
        /\ core # << >> => (core[1] \notin Whitespace /\ core[Len(core)] \notin Whitespace)

\* C27: update_metadata(title, agenda) leaves the title as it is when title
\* is omitted and the agenda as it is when agenda is omitted, each whatever
\* the other is; a given title is stored without its surrounding whitespace,
\* or as unset when it is empty or only whitespace; a given agenda is stored
\* as its entries without surrounding whitespace, the empty and
\* whitespace-only ones left out and the others in their order; segments,
\* labels, audio buffer, id, language and created_at never change.
C27_UpdateMetadata ==
    [][C27_Step =>
        LET before == sessions[last'.sid]
            after == sessions'[last'.sid]
            title == last'.arg.title
            agenda == last'.arg.agenda
        IN  /\ title = None => after.title = before.title
            /\ title # None =>
                   IF Blank(Val(title))
                   THEN after.title = None
                   ELSE after.title # None /\ Stripped(Val(title), Val(after.title))
            /\ agenda = None => after.agenda = before.agenda
            /\ agenda # None =>
                   LET given == Val(agenda)
                       kept == {i \in Indices(given) : ~Blank(given[i])}
                       place(i) == Cardinality({j \in kept : j <= i})
                   IN  /\ Len(after.agenda) = Cardinality(kept)
                       /\ \A i \in kept :
                              /\ after.agenda[place(i)] # << >>
                              /\ Stripped(given[i], after.agenda[place(i)])
            /\ after.segments = before.segments
            /\ after.speaker_labels = before.speaker_labels
            /\ after.audio_buffer = before.audio_buffer
            /\ after.session_id = before.session_id
            /\ after.language = before.language
            /\ after.created_at = before.created_at]_vars

\* an update with the title omitted has replaced the agenda, dropping a blank
\* entry, and kept the title an earlier update set, on a session with a
\* segment, a label and buffered audio
C27_Witness ==
    /\ Called("update_metadata")
    /\ last.arg.title = None
    /\ last.arg.agenda = Some(<< <<" ", "x">>, <<" ">>, <<"y", " ", "z", " ">> >>)
    /\ sessions[last.sid].title = Some(<<"T", " ", "U">>)
    /\ sessions[last.sid].agenda = << <<"x">>, <<"y", " ", "z">> >>
    /\ sessions[last.sid].segments # << >>
    /\ sessions[last.sid].speaker_labels # EmptyDict
    /\ sessions[last.sid].audio_buffer # << >>

\* C28: audio_samples(max_samples) returns the whole buffer in order when
\* max_samples is absent or not positive, and otherwise the last
\* min(max_samples, len(buffer)) samples in order; it never changes the
\* buffer, and a change the caller makes to the returned list does not
\* change the buffer.
C28_AudioSamples ==
    [][/\ (last'.op = "audio_samples" /\ last'.ret.status = "ok") =>
              LET buffer == sessions[last'.sid].audio_buffer
                  n == last'.arg.max_samples
                  out == last'.ret.samples
              IN  /\ sessions' = sessions
                  /\ IF n = None \/ Val(n) <= 0
                     THEN out = buffer
                     ELSE /\ Len(out) = Min(Val(n), Len(buffer))
                          /\ \A i \in Indices(out) :
                                 out[i] = buffer[Len(buffer) - Len(out) + i]
       /\ last'.op = "extend_returned" => sessions' = sessions
      ]_vars

\* a caller has changed the list of the last two of three buffered samples
\* it was returned, and the buffer still holds the three
C28_Witness ==
    /\ Called("extend_returned")
    /\ last.arg.max_samples = Some(2)
    /\ last.arg.returned = <<-2, 1>>
    /\ sessions[last.sid].audio_buffer = <<1, -2, 1>>

\* the requests granted at a time of day from `from` to `to`
GrantedWithin(granted, from, to) ==
    {i \in Indices(granted) : from <= granted[i] /\ granted[i] <= to}

\* C29: with a limit N configured and requests at non-decreasing times, at
\* most N requests are granted in any window of a minute; a request that
\* arrives while N granted requests lie within the minute before it is
\* rejected with TooManyRequests (429) and its handler is not run; with no
\* limit configured every request is granted.
C29_RateLimit ==
    [][last'.op = "request" =>
        LET limit == rate_limiter.max_requests_per_minute
            time == last'.arg.time
        IN  /\ limit = None => (last'.ret.status = "ok" /\ last'.ret.handled)
            /\ limit # None =>
                   /\ \A start \in 0..MaxTick :
                          Cardinality(GrantedWithin(rate_limiter'.granted, start, start + Minute))
                              <= Val(limit)
                   /\ Cardinality(GrantedWithin(rate_limiter.granted, time - Minute, time))
                          >= Val(limit) =>
                          /\ last'.ret.status = "TooManyRequests"
                          /\ ~last'.ret.handled
                          /\ rate_limiter'.granted = rate_limiter.granted]_vars

\* the calls a live session takes
LifeOps == {"append_audio", "process_audio_buffer", "append", "label", "forget", "export"}

\* the model has room for one more sample and one more segment of the session
HasRoom(id) ==
    /\ Len(fed[id]) < MaxBuf
    /\ Len(sessions[id].segments) < MaxSegs

Accepted == last'.ret.status = "ok"

StillAccepts(id) ==
    /\ ENABLED (SessionStore_append_audio(id, <<1>>, None) /\ Accepted)
    /\ ENABLED (\E h \in Hints : SessionStore_process_audio_buffer(id, 1, 1, h, TRUE, <<AudioSegment>>)
                                 /\ Accepted)
    /\ ENABLED (SessionStore_append(id, <<(DiarizedSegment("spk_B", "dorood"))>>) /\ Accepted)
    /\ ENABLED (SessionStore_label(id, "spk_A", "Ali") /\ Accepted)
    /\ ENABLED (SessionStore_forget(id, "spk_A", "[redacted]") /\ Accepted)
    /\ ENABLED (SessionStore_export(id, FALSE) /\ Accepted)

C30_Step ==
    /\ last'.op \in LifeOps =>
           IF last'.sid \in DOMAIN sessions
           THEN last'.ret.status = "ok" /\ last'.sid \in DOMAIN sessions'
           ELSE last'.ret.status = "NotFound" /\ sessions' = sessions
    /\ \A id \in DOMAIN sessions \ DOMAIN sessions' :
           \/ last'.op = "delete" /\ last'.sid = id
           \/ last'.op = "clear"
    /\ \A id \in DOMAIN sessions' \ DOMAIN sessions :
           last'.op \in {"create", "restore"} /\ last'.sid = id
    /\ last'.op = "delete" /\ last'.ret.status = "ok" => last'.sid \notin DOMAIN sessions'
    /\ last'.op = "clear" => sessions' = EmptyDict

\* C30: a session that exists takes append_audio, process_audio_buffer, append,
\* label, forget and export in every reachable state, each answering ok and
\* leaving the session in the store, so the processing cycle can run again
\* after every run; a session leaves the store only by delete of its id or
\* by clear of the store, the calls on an id that is not in the store answer
\* NotFound and change nothing, and an id comes back only by create or restore
C30_NoTerminalState ==
    /\ [](\A id \in DOMAIN sessions : HasRoom(id) => StillAccepts(id))
    /\ [][C30_Step]_vars

\* the second processing cycle of a session: both of its segments are spk_A's,
\* which only process_audio_buffer appends here, and the call that appended
\* the second one detected speech again, answered ok and cleared the buffer
C30_Witness ==
    /\ last.op = "process_audio_buffer"
    /\ last.ret.status = "ok"
    /\ last.ret.spans # << >>
    /\ last.arg.clear_buffer
    /\ last.sid \in DOMAIN sessions
    /\ Len(sessions[last.sid].segments) >= 2
    /\ \A i \in Indices(sessions[last.sid].segments) :
           sessions[last.sid].segments[i].speaker = "spk_A"
    /\ sessions[last.sid].audio_buffer = << >>

\* C31: the spans of detect_speech are exactly the maximal runs of samples
\* with abs(x) >= threshold that are at least min_run long, one span per
\* run: every sample of a span is active, the samples next to it on either
\* side are inactive or outside the input, shorter runs give no span and
\* are not joined to a neighbouring run
C31_SpansAreMaximalRuns ==
    Called("detect_speech") =>
        LET samples == last.arg.samples
            spans == last.ret.spans
        IN  /\ {<<spans[k].start_index, spans[k].end_index>> : k \in Indices(spans)} =
                   {run \in MaximalRuns(samples, last.arg.threshold) :
                        run[2] - run[1] + 1 >= last.arg.min_run}
            /\ \A j, k \in Indices(spans) :
                   spans[j].start_index = spans[k].start_index => j = k

\* two runs of two loud samples with one quiet sample between them, found
\* as two spans with min_run = 2
C31_Witness ==
    /\ Called("detect_speech")
    /\ last.arg.min_run = 2
    /\ Len(last.ret.spans) = 2
    /\ last.ret.spans[2].start_index = last.ret.spans[1].end_index + 2

\* a statement of the process_audio_buffer call in progress, as opposed to
\* a statement of another call on the store
OwnStep == thr # NoThreads /\ (thr' = NoThreads \/ thr'.pc # thr.pc)

\* the text of the STT request for a hint and the spans of a scanned window
RequestText(hint, spans) ==
    [hint |-> IF \A i \in Indices(hint) : hint[i] \in Whitespace
              THEN <<"b", "u", "f", "f", "e", "r", "e", "d", " ", "a", "u", "d", "i", "o">>
              ELSE strip(hint),
     descriptions |-> [k \in Indices(spans) |->
                          <<"buffer", spans[k].start_index, spans[k].end_index>>]]

C32_Step ==
    OwnStep =>
        /\ thr.pc = "transcribe" /\ thr' # NoThreads =>
               /\ thr.calls = << >>
               /\ thr'.calls = <<[service |-> "stt",
                                  text |-> RequestText(thr.arg.transcript_hint, thr.spans),
                                  language |-> thr.language]>>
               /\ \A k \in Indices(thr.spans) :
                      k > 1 => thr.spans[k - 1].start_index < thr.spans[k].start_index
               /\ sessions' = sessions
        /\ thr.pc = "diarize" /\ thr' # NoThreads =>
               /\ Len(thr'.calls) = 2
               /\ thr'.calls[1] = thr.calls[1]
               /\ thr'.calls[2].service = "diarization"
               /\ thr'.calls[2].transcript = transcribe(thr.calls[1].text, thr.language)
               /\ sessions' = sessions
        /\ thr.pc = "append" /\ thr' # NoThreads =>
               /\ Len(thr.calls) = 2
               /\ thr'.calls = thr.calls
               /\ sessions'[thr.sid].segments =
                      sessions[thr.sid].segments \o thr.calls[2].returned
               /\ sessions'[thr.sid].audio_buffer = sessions[thr.sid].audio_buffer
        /\ thr.pc = "clear" =>
               /\ last'.calls = thr.calls
               /\ Len(last'.calls) = 2
               /\ \A id \in DOMAIN sessions :
                      sessions'[id].segments = sessions[id].segments
        /\ sessions' # sessions => thr.pc \in {"append", "clear"}

\* C32: a process_audio_buffer call that found spans makes one STT request
\* and then one diarization request before it appends; the STT request
\* carries the language of the scanned session and the stripped hint, or
\* 'buffered audio' for a blank one, followed by every span in increasing
\* order; the diarizer is handed the STT result; the append adds the units
\* the diarizer returned, in order, and leaves the buffer alone; the buffer
\* changes only in the statement after the append
C32_RequestsInOrder == [][C32_Step]_vars

\* a returned call with a blank hint that described two spans, appended a
\* segment and cleared the buffer
C32_Witness ==
    /\ Called("process_audio_buffer")
    /\ Len(last.ret.spans) = 2
    /\ last.arg.transcript_hint = <<" ">>
    /\ last.arg.clear_buffer
    /\ Len(last.calls) = 2
    /\ last.sid \in DOMAIN sessions
    /\ sessions[last.sid].segments # << >>
    /\ sessions[last.sid].audio_buffer = << >>

C33_Step ==
    (OwnStep /\ thr.pc \in {"transcribe", "diarize"}) =>
        /\ sessions' = sessions
        /\ thr' = NoThreads =>
               /\ last'.op = "process_audio_buffer"
               /\ last'.sid = thr.sid
               /\ last'.ret.status = IF thr.pc = "transcribe" THEN "SttError"
                                     ELSE "DiarizationError"
               /\ (thr.session = "stored" /\ sessions[thr.sid].audio_buffer = thr.window) =>
                      detect_speech(sessions'[thr.sid].audio_buffer,
                                    thr.arg.threshold, thr.arg.min_run) = thr.spans
        /\ thr' # NoThreads => last' = last

\* C33: when the STT or the diarization collaborator raises during
\* process_audio_buffer, the call ends with that error as its result and
\* has changed nothing: no statement of the call up to and including the
\* failing one touches any session, so segments, labels and buffer are as
\* before, with clear_buffer = true as well, and a scan of the same buffer
\* finds the same spans again
C33_FailurePropagates == [][C33_Step]_vars

\* a clearing call ended by a diarizer failure, with the scanned audio
\* still in the buffer and no segment in the timeline
C33_Witness ==
    /\ last.op = "process_audio_buffer"
    /\ last.ret.status = "DiarizationError"
    /\ last.arg.clear_buffer
    /\ last.sid \in DOMAIN sessions
    /\ sessions[last.sid].segments = << >>
    /\ detect_speech(sessions[last.sid].audio_buffer, 1, 1) # << >>

C34_Step ==
    OwnStep =>
        /\ (thr.pc = "append" /\ thr' # NoThreads) => thr.session = "stored"
        /\ (thr.pc = "clear" /\ sessions' # sessions) => thr.scanned

\* C34: whatever create, restore or delete runs on the same session_id
\* between the scan and the append, process_audio_buffer appends its
\* segments to the session object whose buffer it scanned, and with
\* clear_buffer = true empties the buffer of that object only
C34_SameSession == [][C34_Step]_vars

C35_Step ==
    (OwnStep /\ thr.pc = "clear" /\ sessions' # sessions) =>
        IsSuffix(sessions[thr.sid].audio_buffer, thr.window)

\* C35: the samples process_audio_buffer removes with clear_buffer = true
\* were all in the buffer that detect_speech scanned in that call; samples
\* an append_audio added between the scan and the clear are not discarded
C35_ClearsScannedOnly == [][C35_Step]_vars

\* whether a session's created_at lies before now minus the retention age
OlderThanRetention(session, days, now) ==
    session.created_at.day < now.day - days

C38_Step ==
    (last'.op = "export_and_store" /\ last'.ret.status = "ok") =>
        LET id == last'.sid
            days == last'.arg.export_retention_days
            kept == days = None \/ ~OlderThanRetention(sessions[id], Val(days), last'.arg.now)
        IN  /\ (id \in DOMAIN files') <=> kept
            /\ kept => fromisoformat(files'[id].created_at) = sessions[id].created_at
            /\ ~kept => \E k \in Indices(last'.ret.pruned) : last'.ret.pruned[k] = id
            /\ last'.ret.saved_path = id
            /\ days = None => last'.ret.pruned = << >>

\* C38: export_and_store saves the manifest and prunes in the same request:
\* afterwards the session's stored export exists exactly when retention is
\* disabled or the session's created_at is not older than the retention
\* age; for an older session the file just saved is removed again, its id is
\* in 'pruned', and the response still names a saved_path
C38_StoreThenPrune == [][C38_Step]_vars

\* a store request for a session older than the retention age: answered
\* ok with a saved_path, the id in pruned and no stored export left
C38_Witness ==
    /\ Called("export_and_store")
    /\ last.arg.export_retention_days = Some(1)
    /\ last.sid \notin DOMAIN files
    /\ last.ret.pruned # << >>
    /\ last.ret.saved_path = last.sid

\* a process_audio_buffer call directly after one with the same threshold
\* and min_run on the same session that found spans and kept the buffer
C36_Step ==
    (/\ last.op = "process_audio_buffer"
     /\ last.ret.status = "ok"
     /\ last.ret.spans # << >>
     /\ ~last.arg.clear_buffer
     /\ last'.op = "process_audio_buffer"
     /\ last'.sid = last.sid
     /\ last'.arg.threshold = last.arg.threshold
     /\ last'.arg.min_run = last.arg.min_run) =>
        /\ last'.ret.status = "ok"
        /\ last'.ret.spans = last.ret.spans
        /\ Len(last'.calls) = 2
        /\ last'.calls[1].service = "stt"
        /\ sessions'[last'.sid].segments =
               sessions[last'.sid].segments \o last'.calls[2].returned

\* C36: process_audio_buffer does not remember what it has transcribed: a
\* call that follows one with clear_buffer = false on the unchanged buffer
\* reports the same spans, makes a new STT request and appends the
\* diarizer's segments once more, so the timeline grows by one copy a call
C36_ReprocessesBuffer == [][C36_Step]_vars

\* two copies of the processed segment in the timeline after a call that
\* found spans and kept the buffer
C36_Witness ==
    /\ Called("process_audio_buffer")
    /\ ~last.arg.clear_buffer
    /\ last.ret.spans # << >>
    /\ sessions[last.sid].segments = <<AudioSegment, AudioSegment>>
    /\ sessions[last.sid].audio_buffer # << >>

\* speaker_id has a segment in segments
Speaks(segments, speaker_id) == \E i \in Indices(segments) : segments[i].speaker = speaker_id

\* an append that follows a forget of a speaker, or an append that reported
\* the speaker as new, on the same session
C37_Step ==
    /\ (last'.op = "forget" /\ last'.ret.status = "ok") =>
           last'.arg.speaker_id \notin DOMAIN sessions'[last'.sid].speaker_labels
    /\ (last'.op = "append" /\ last'.ret.status = "ok" /\ last'.sid = last.sid
        /\ last.ret.status = "ok") =>
           LET before == sessions[last'.sid].segments
               new == last'.arg.segments
               reported == last'.ret.new_speakers
               forgotten == IF last.op = "forget" THEN {last.arg.speaker_id}
                            ELSE IF last.op = "append"
                            THEN {last.ret.new_speakers[k] : k \in Indices(last.ret.new_speakers)}
                            ELSE {}
           IN  /\ \A i \in Indices(new) :
                      sessions'[last'.sid].segments[Len(before) + i] = new[i]
               /\ \A i \in Indices(before) : sessions'[last'.sid].segments[i] = before[i]
               /\ \A sp \in forgotten :
                      Speaks(new, sp) => \E k \in Indices(reported) : reported[k] = sp

\* C37: forget_speaker rewrites the segments present at the call and
\* removes the label; a segment of that speaker appended afterwards is
\* stored with its own text, the redacted segments stay redacted, and the
\* append reports the speaker as new, as does every further append of that
\* speaker while no label is set for it
C37_ForgetIsNotSticky == [][C37_Step]_vars

\* a redacted segment of spk_A followed by a segment of spk_A appended
\* after the forget with its own text, spk_A reported as new
C37_Witness ==
    /\ Called("append")
    /\ Len(sessions[last.sid].segments) = 2
    /\ sessions[last.sid].segments[1] = DiarizedSegment("spk_A", "[redacted]")
    /\ sessions[last.sid].segments[2] = DiarizedSegment("spk_A", "salam")
    /\ \E k \in Indices(last.ret.new_speakers) : last.ret.new_speakers[k] = "spk_A"

\* C39: a request that is not granted leaves no event in the RateLimiter,
\* so rejections never extend the blocking period, and a request that
\* arrives while fewer than N granted requests lie within the minute
\* before it is granted; a client that retries as time advances is served
\* as soon as the window has room
C39_RejectionsNotRecorded ==
    [][(last'.op = "request" /\ rate_limiter.max_requests_per_minute # None) =>
        LET limit == Val(rate_limiter.max_requests_per_minute)
            time == last'.arg.time
        IN  /\ ~last'.ret.handled =>
                   /\ rate_limiter'.events =
                          popleft_expired(rate_limiter.events, time - Minute)
                   /\ rate_limiter'.granted = rate_limiter.granted
            /\ Cardinality(GrantedWithin(rate_limiter.granted, time - Minute, time)) < limit =>
                   (last'.ret.status = "ok" /\ last'.ret.handled)]_vars

C40_Step ==
    (last'.op = "append_audio" /\ last'.sid \in DOMAIN sessions
     /\ last'.arg.trim_to # None /\ Val(last'.arg.trim_to) <= 0) =>
        /\ last'.ret.status = "ok"
        /\ last'.ret.added = Len(last'.arg.samples)
        /\ sessions'[last'.sid].audio_buffer =
               sessions[last'.sid].audio_buffer \o last'.arg.samples
        /\ sessions'[last'.sid] =
               append_audio(sessions[last'.sid], last'.arg.samples, None).session

\* C40: append_audio called on the store with trim_to <= 0 does not raise
\* and does not trim: the buffer becomes the old buffer followed by the
\* samples, as with trim_to omitted, and the call reports len(samples)
C40_NonPositiveTrim == [][C40_Step]_vars

\* two samples appended with trim_to = 0 to a buffer that held one, all
\* three kept
C40_Witness ==
    /\ Called("append_audio")
    /\ last.arg.trim_to = Some(0)
    /\ Len(last.arg.samples) = 2
    /\ last.ret.added = 2
    /\ Len(sessions[last.sid].audio_buffer) = 3

=============================================================================
